---- MODULE Spec2Model ----
(***************************************************************************)
(* Planning dashboard: the MongoDB project store (src/lib/project-store.ts), *)
(* the in-memory staleness cache, and the HTTP handlers that publish a scan *)
(* of the planning directory to one of the two (refresh, cron, webhook).    *)
(*                                                                         *)
(* Every `await` of the code is a point where another request may run, so  *)
(* each async function is cut into steps at its awaits.  A null handle is  *)
(* 0; a non-null handle is the number of the MongoClient it belongs to.    *)
(* MONGO_URL is taken to be configured; a connect() that throws for any    *)
(* reason is the failing outcome of ConnWaitDone / IdxWaitDone.            *)
(***************************************************************************)
EXTENDS Integers, Sequences, FiniteSets, TLC

\* ---------------------------------------------------------------- bounds
NumReq == 2
MaxBatch == 2
MaxFiles == 1
MaxClients == 3
MaxTime == 300001

\* ------------------------------------------------------ program constants
TTL == 300000

Null == 0

\* ------------------------------------------------------------ record kinds
Slugs == {"alpha", "beta"}
ProjectStatuses == {"active", "done"}
TaskIds == {"T-001", "T-002"}
TaskStatuses == {"todo", "done"}
OutputIds == {"o1", "o2"}

Project == [slug : Slugs, status : ProjectStatuses]
Task == [project : Slugs, id : TaskIds, status : TaskStatuses]
Output == [id : OutputIds, project : Slugs, task : TaskIds]

\* the records the store functions are called with
Projects == {p \in Project : p.slug = "alpha" \/ p.status = "active"}

Tasks == {t \in Task : t.id = "T-001" \/ (t.project = "alpha" /\ t.status = "todo")}

Outputs == {o \in Output : o.task = "T-001" /\ (o.id = "o1" \/ o.project = "alpha")}

Kinds == {"projects", "tasks", "outputs"}

Range(s) == {s[i] : i \in 1..Len(s)}

SeqsUpTo(S, n) == UNION {[1..k -> S] : k \in 0..n}

\* ------------------------------------------------- document-store primitives
\* find(query): the documents whose fields equal every field of the query
Find(coll, query) == {d \in coll : \A f \in DOMAIN query : d[f] = query[f]}

\* the filter each store function builds for its upsert
\* (variant: a filter on slug and status)
ProjectFilterWhole(project) ==
  [slug |-> project.slug, status |-> project.status]

ProjectFilter(project) == [slug |-> project.slug]

\* (variant: a filter on the id alone)
TaskFilterNoProject(task) == [id |-> task.id]

TaskFilter(task) == [project |-> task.project, id |-> task.id]

OutputFilter(output) == [id |-> output.id]

UpsertFilter(kind, doc) ==
  CASE kind = "projects" -> ProjectFilter(doc)
    [] kind = "tasks" -> TaskFilter(doc)
    [] kind = "outputs" -> OutputFilter(doc)

\* replaceOne(filter, doc, {upsert: true}): the first matching document is
\* replaced; with no match the document is inserted
ReplaceOne(coll, query, doc) ==
  LET hit == Find(coll, query)
  IN  IF hit = {} THEN coll \cup {doc}
      ELSE (coll \ {CHOOSE d \in hit : TRUE}) \cup {doc}

\* deleteOne(filter): the collections after removing victim, one of the matches
\* (variant: deleteMany({}), every document is removed)
DeleteEvery(coll, victim) == {}

DeleteOne(coll, victim) == coll \ {victim}

\* the record a key holds after the writes of ops, applied in order, or <<>>
LastFor(ops, query) ==
  LET idx == {i \in 1..Len(ops) : \A f \in DOMAIN query : ops[i][f] = query[f]}
  IN  IF idx = {} THEN <<>>
      ELSE <<ops[CHOOSE i \in idx : \A j \in idx : j <= i]>>


\* ---------------------------------------------------------------- state
VARIABLES
  client,               \* module state of project-store.ts: the MongoClient
  db,                   \* ... its Db
  projectsCollection,   \* ... and the three collection handles
  tasksCollection,
  outputsCollection,
  clients,              \* state of every MongoClient object created so far
  store,                \* the documents held by the three MongoDB collections
  written,              \* history: per kind and key, the last write applied
  req,                  \* the requests (handler invocations, store calls)
  cache,                \* the Cache singleton's data: <<>> is null
  now,                  \* Date.now()
  variant,              \* deployment: "store" (MongoDB) or "cache" revision
  published,            \* history: <<time of the last publish>>, or <<>>
  lastSet,              \* history: <<argument of the last cache.set>>, or <<>>
  kv,                   \* the Vercel KV entry of CACHE_KEY: <<>> when absent
  cronSecret,           \* process.env.CRON_SECRET, "" when not configured
  isProd                \* IS_PROD: NODE_ENV is "production"

modvars == <<client, db, projectsCollection, tasksCollection, outputsCollection>>

colvars == <<db, projectsCollection, tasksCollection, outputsCollection>>

envvars ==
  <<cache, now, variant, published, lastSet, kv, cronSecret, isProd>>

vars == <<client, db, projectsCollection, tasksCollection, outputsCollection,
          clients, store, written, req, cache, now, variant, published,
          lastSet, kv, cronSecret, isProd>>

Reqs == 1..NumReq

\* ------------------------------------------------ the store's functions
StoreOneFns == {"storeProject", "storeTask", "storeOutput"}
GetOneFns == {"getProject", "getTask", "getOutput"}
GetAllFns == {"getProjects", "getTasks", "getOutputs"}
DeleteFns == {"deleteProject", "deleteTask", "deleteOutput"}
BatchFns == {"storeProjects", "storeTasks", "storeOutputs", "syncAll"}

\* the collection handles a store function tests before it calls connect()
Needs(fn) ==
  CASE fn \in {"storeProject", "getProject", "getProjects", "deleteProject",
               "storeProjects"} -> {"projects"}
    [] fn \in {"storeTask", "getTask", "getTasks", "deleteTask",
               "storeTasks"} -> {"tasks"}
    [] fn \in {"storeOutput", "getOutput", "getOutputs", "deleteOutput",
               "storeOutputs"} -> {"outputs"}
    [] fn \in {"syncAll", "getAllStats"} -> Kinds

KindOf(fn) == CHOOSE k \in Needs(fn) : TRUE

Coll(k) ==
  CASE k = "projects" -> projectsCollection
    [] k = "tasks" -> tasksCollection
    [] k = "outputs" -> outputsCollection

EmptyStore == [k \in Kinds |-> {}]

KeyOf(k, doc) ==
  CASE k = "projects" -> doc.slug
    [] k = "tasks" -> <<doc.project, doc.id>>
    [] k = "outputs" -> doc.id

KeysOf(k) ==
  CASE k = "projects" -> Slugs
    [] k = "tasks" -> Slugs \X TaskIds
    [] k = "outputs" -> OutputIds

NoBatch == [st |-> "none", rest |-> <<>>]

NoStats == [projects |-> -1, tasks |-> -1, outputs |-> -1]

EmptyPayload == [k \in Kinds |-> <<>>]

IdleReq ==
  [kind |-> "idle", pc |-> "idle", stages |-> <<>>, has |-> {},
   payload |-> EmptyPayload, doc |-> <<>>, query |-> <<>>,
   batch |-> [k \in Kinds |-> NoBatch], mine |-> Null, ret |-> Null,
   err |-> FALSE, health |-> "none", h |-> Null, status |-> 0,
   stats |-> NoStats, found |-> {}, deleted |-> FALSE, parsed |-> FALSE,
   age |-> -1, valid |-> FALSE, json |-> TRUE, scanErr |-> FALSE,
   fresh |-> FALSE, list |-> <<>>]

\* a request slot that serves no request
Free(r) == req[r].pc = "idle"

Keep(rq) == [rq |-> rq, client |-> client, clients |-> clients]

\* A MongoClient object nothing refers to any more is garbage, and its slot in
\* clients is free for the next object created.  Gc frees the slots that the
\* module state mod and the requests rqs no longer refer to.
ReqRefs(rq) == {rq.mine, rq.h, rq.ret}

Gc(cls, mod, rqs) ==
  [c \in DOMAIN cls |->
     IF c \in mod \/ \E r \in Reqs : c \in ReqRefs(rqs[r])
     THEN cls[c] ELSE "free"]

FreeSlots == {c \in 1..MaxClients : clients[c] = "free"}

NewClient == CHOOSE c \in FreeSlots : \A o \in FreeSlots : c <= o

PayloadStats(rq) == [k \in Kinds |-> Len(rq.payload[k])]

HandlerKinds == {"refresh", "cron", "webhookPost", "webhookGet"}

\* the handler returns NextResponse.json(..., {status}); a store function called
\* on its own returns (200) or throws (500).  The records of a scan or of a
\* request body are dropped with the handler's frame.
Respond(rq, status) ==
  [rq EXCEPT !.pc = "done", !.status = status, !.stages = <<>>,
             !.mine = Null, !.ret = Null, !.err = FALSE, !.h = Null,
             !.payload = IF rq.kind \in HandlerKinds THEN EmptyPayload ELSE @,
             !.stats = IF rq.kind = "webhookPost" /\ status = 200
                       THEN PayloadStats(rq) ELSE @]

\* an exception that reaches the handler's catch block (or the caller)
Throw(rq) == Keep(Respond(rq, 500))

\* connect(), up to its first await
ConnectBegin(rq) ==
  IF client # Null /\ db # Null
  THEN Keep([rq EXCEPT !.pc = "connRet", !.ret = db, !.err = FALSE])
  ELSE IF FreeSlots = {} THEN [rq |-> rq, client |-> client, clients |-> <<>>]
  ELSE [rq |-> [rq EXCEPT !.pc = "connWait", !.mine = NewClient],
        client |-> NewClient,
        clients |-> [clients EXCEPT ![NewClient] = "connecting"]]

\* the database operation(s) of a store function, issued on non-null handles
Issue(rq, fn) ==
  IF fn \in BatchFns
  THEN Keep([rq EXCEPT
         !.pc = "batches",
         !.h = Coll(KindOf(fn)),
         !.batch = [k \in Kinds |->
                      IF k \notin Needs(fn) THEN NoBatch
                      ELSE IF rq.payload[k] = <<>>
                           THEN [st |-> "ok", rest |-> <<>>]
                           ELSE [st |-> "inflight", rest |-> rq.payload[k]]]])
  ELSE Keep([rq EXCEPT !.pc = "opWait", !.h = Coll(KindOf(fn))])

\* disconnect(), up to its await; it is the last call of every handler
DisconnectBegin(rq) ==
  IF client # Null
  THEN [rq |-> [rq EXCEPT !.pc = "closeWait", !.h = client],
        client |-> client,
        clients |-> [clients EXCEPT ![client] = "closed"]]
  ELSE Keep(Respond(rq, 200))

\* healthCheck(), up to its first await
HealthCheckBegin(rq) ==
  IF client = Null THEN ConnectBegin(rq)
  ELSE Keep([rq EXCEPT !.pc = "opWait", !.h = client])

\* a store function from its entry to its first await
EnterFn(rq, fn) ==
  CASE fn = "disconnect" -> DisconnectBegin(rq)
    [] fn = "connect" -> ConnectBegin(rq)
    [] fn = "healthCheck" -> HealthCheckBegin(rq)
    [] OTHER -> IF \A k \in Needs(fn) : Coll(k) # Null
                THEN Issue(rq, fn)
                ELSE ConnectBegin(rq)

\* the awaited function returned: the handler goes on to its next call
Advance(rq) ==
  LET rest == Tail(rq.stages)
  IN  IF rest = <<>> THEN Keep(Respond(rq, 200))
      ELSE EnterFn([rq EXCEPT !.stages = rest], Head(rest))

\* the step is taken with the module's client and the client list as e gives
Apply(r, e) ==
  /\ e.clients # <<>>     \* MaxClients objects are in use: no step
  /\ req' = [req EXCEPT ![r] = e.rq]
  /\ client' = e.client
  /\ clients' = Gc(e.clients,
                   {e.client, db, projectsCollection, tasksCollection,
                    outputsCollection},
                   [req EXCEPT ![r] = e.rq])


\* ------------------------------------------------------ steps of connect()
NullAll ==
  /\ client' = Null
  /\ db' = Null
  /\ projectsCollection' = Null
  /\ tasksCollection' = Null
  /\ outputsCollection' = Null

\* `await client.connect()` settles.  On success the module's current client
\* (not necessarily the one this call created) provides db and the handles,
\* and the first createIndex is awaited; an exception runs the catch block.
ConnWaitDone(r) ==
  /\ req[r].pc = "connWait"
  /\ \E ok \in BOOLEAN :
       LET opened == [clients EXCEPT ![req[r].mine] =
                        IF @ = "connecting"
                        THEN (IF ok THEN "open" ELSE "closed") ELSE @]
       IN  IF ok /\ client # Null
           THEN /\ db' = client
                /\ projectsCollection' = client
                /\ tasksCollection' = client
                /\ outputsCollection' = client
                /\ req' = [req EXCEPT ![r].pc = "idxWait", ![r].mine = Null]
                /\ clients' = Gc(opened, {client}, req')
                /\ UNCHANGED client
           ELSE /\ NullAll
                /\ req' = [req EXCEPT ![r].pc = "connRet", ![r].err = TRUE,
                                      ![r].ret = Null, ![r].mine = Null]
                /\ clients' = Gc(opened, {}, req')
  /\ UNCHANGED <<store, written, cache, now, variant, published, lastSet, kv,
                 cronSecret, isProd>>

\* the createIndex awaits settle: connect() returns the module's db, or the
\* catch block nulls the module state and rethrows
IdxWaitDone(r) ==
  /\ req[r].pc = "idxWait"
  /\ \E ok \in BOOLEAN :
       IF ok
       THEN /\ req' = [req EXCEPT ![r].pc = "connRet", ![r].err = FALSE,
                                  ![r].ret = db]
            /\ UNCHANGED <<modvars, clients>>
       ELSE /\ NullAll
            /\ req' = [req EXCEPT ![r].pc = "connRet", ![r].err = TRUE,
                                  ![r].ret = Null]
            /\ clients' = Gc(clients, {}, req')
  /\ UNCHANGED <<store, written, cache, now, variant, published, lastSet, kv,
                 cronSecret, isProd>>

\* the caller of connect() resumes after `await connect()`
ConnRet(r) ==
  LET rq == [req[r] EXCEPT !.mine = Null, !.ret = Null, !.err = FALSE]
      fn == Head(req[r].stages)
  IN  /\ req[r].pc = "connRet"
      /\ IF fn = "healthCheck"
         THEN IF req[r].err \/ client = Null
              THEN Apply(r, Advance([rq EXCEPT !.health = "bad"]))
              ELSE Apply(r, Keep([rq EXCEPT !.pc = "opWait", !.h = client]))
         ELSE IF fn = "connect"
         THEN Apply(r, IF req[r].err THEN Throw(rq) ELSE Advance(rq))
         ELSE IF req[r].err \/ \E k \in Needs(fn) : Coll(k) = Null
              THEN Apply(r, Throw(rq))
              ELSE Apply(r, Issue(rq, fn))
      /\ UNCHANGED <<colvars, store, written, envvars>>

\* `await client.close()` settles; disconnect() nulls the module state and the
\* handler returns its response
CloseDone(r) ==
  /\ req[r].pc = "closeWait"
  /\ NullAll
  /\ req' = [req EXCEPT ![r] = Respond(req[r], 200)]
  /\ clients' = Gc(clients, {}, req')
  /\ UNCHANGED <<store, written, cache, now, variant, published, lastSet, kv,
                 cronSecret, isProd>>


\* ------------------------------------------- steps of the store operations
\* an awaited database operation rejects: the store functions rethrow, and
\* healthCheck reports {connected: false}
OpFail(r) ==
  /\ req[r].pc = "opWait"
  /\ IF Head(req[r].stages) = "healthCheck"
     THEN Apply(r, Advance([req[r] EXCEPT !.health = "bad", !.h = Null]))
     ELSE Apply(r, Throw(req[r]))
  /\ UNCHANGED <<colvars, store, written, envvars>>

\* replaceOne(filter, doc, {upsert: true}) of storeProject/storeTask/storeOutput
StoreOneDone(r) ==
  LET fn == Head(req[r].stages)
      k == KindOf(fn)
      d == req[r].doc[1]
  IN  /\ req[r].pc = "opWait"
      /\ fn \in StoreOneFns
      /\ store' = [store EXCEPT ![k] = ReplaceOne(@, UpsertFilter(k, d), d)]
      /\ written' = [written EXCEPT ![k][KeyOf(k, d)] = <<d>>]
      /\ Apply(r, Advance([req[r] EXCEPT !.h = Null]))
      /\ UNCHANGED <<colvars, envvars>>

\* findOne(query) of getProject/getTask/getOutput: one match, or null
GetOneDone(r) ==
  LET fn == Head(req[r].stages)
      hit == Find(store[KindOf(fn)], req[r].query)
  IN  /\ req[r].pc = "opWait"
      /\ fn \in GetOneFns
      /\ \E res \in (IF hit = {} THEN {{}} ELSE {{d} : d \in hit}) :
           Apply(r, Advance([req[r] EXCEPT !.h = Null, !.found = res]))
      /\ UNCHANGED <<colvars, store, written, envvars>>

\* find(filter || {}).sort(...).toArray() of getProjects/getTasks/getOutputs
GetAllDone(r) ==
  LET fn == Head(req[r].stages)
  IN  /\ req[r].pc = "opWait"
      /\ fn \in GetAllFns
      /\ Apply(r, Advance([req[r] EXCEPT
                             !.h = Null,
                             !.found = Find(store[KindOf(fn)], req[r].query)]))
      /\ UNCHANGED <<colvars, store, written, envvars>>

\* deleteOne(query) of deleteProject/deleteTask/deleteOutput; the function
\* returns result.deletedCount > 0
DeleteDone(r) ==
  LET fn == Head(req[r].stages)
      k == KindOf(fn)
      hit == Find(store[k], req[r].query)
  IN  /\ req[r].pc = "opWait"
      /\ fn \in DeleteFns
      /\ IF hit = {}
         THEN /\ Apply(r, Advance([req[r] EXCEPT !.h = Null,
                                                 !.deleted = FALSE]))
              /\ UNCHANGED <<store, written>>
         ELSE \E victim \in hit :
                /\ store' = [store EXCEPT ![k] = DeleteOne(@, victim)]
                /\ written' = [written EXCEPT ![k][KeyOf(k, victim)] = <<>>]
                /\ Apply(r, Advance([req[r] EXCEPT !.h = Null,
                                                   !.deleted = TRUE]))
      /\ UNCHANGED <<colvars, envvars>>

\* the three countDocuments() of getAllStats
GetAllStatsDone(r) ==
  /\ req[r].pc = "opWait"
  /\ Head(req[r].stages) = "getAllStats"
  /\ Apply(r, Advance([req[r] EXCEPT
                         !.h = Null,
                         !.stats = [k \in Kinds |-> Cardinality(store[k])]]))
  /\ UNCHANGED <<colvars, store, written, envvars>>

\* client.db().admin().ping() of healthCheck
PingDone(r) ==
  /\ req[r].pc = "opWait"
  /\ Head(req[r].stages) = "healthCheck"
  /\ Apply(r, Advance([req[r] EXCEPT !.h = Null, !.health = "ok"]))
  /\ UNCHANGED <<colvars, store, written, envvars>>

\* the server applies the next replaceOne of an in-flight bulkWrite
BulkStep(r, k) ==
  LET b == req[r].batch[k]
      d == Head(b.rest)
  IN  /\ b.st = "inflight"
      /\ store' = [store EXCEPT ![k] = ReplaceOne(@, UpsertFilter(k, d), d)]
      /\ written' = [written EXCEPT ![k][KeyOf(k, d)] = <<d>>]
      /\ req' = [req EXCEPT ![r].batch[k] =
                   [st |-> IF Tail(b.rest) = <<>> THEN "ok" ELSE "inflight",
                    rest |-> Tail(b.rest)]]
      /\ UNCHANGED <<modvars, clients, envvars>>

\* an in-flight bulkWrite fails: the operations not yet applied are dropped,
\* the ones already applied stay
BulkFail(r, k) ==
  /\ req[r].batch[k].st = "inflight"
  /\ req' = [req EXCEPT ![r].batch[k] = [st |-> "failed", rest |-> <<>>]]
  /\ UNCHANGED <<modvars, clients, store, written, envvars>>

\* every batch of the function resolved: Promise.all (or the one await) resolves
\* (variant: resolves once every batch has settled, as Promise.allSettled)
BatchesResolveSettled(r) ==
  /\ req[r].pc = "batches"
  /\ \A k \in Needs(Head(req[r].stages)) : req[r].batch[k].st \in {"ok", "failed"}
  /\ Apply(r, Advance([req[r] EXCEPT !.h = Null]))
  /\ published' = IF Head(req[r].stages) = "syncAll" THEN <<now>> ELSE published
  /\ UNCHANGED <<colvars, store, written, cache, now, variant, lastSet, kv,
                 cronSecret, isProd>>

BatchesResolve(r) ==
  /\ req[r].pc = "batches"
  /\ \A k \in Needs(Head(req[r].stages)) : req[r].batch[k].st = "ok"
  /\ Apply(r, Advance([req[r] EXCEPT !.h = Null]))
  /\ published' = IF Head(req[r].stages) = "syncAll" THEN <<now>> ELSE published
  /\ UNCHANGED <<colvars, store, written, cache, now, variant, lastSet, kv,
                 cronSecret, isProd>>

\* one batch rejected: Promise.all rejects without waiting for the others
BatchesReject(r) ==
  /\ req[r].pc = "batches"
  /\ \E k \in Needs(Head(req[r].stages)) : req[r].batch[k].st = "failed"
  /\ Apply(r, Throw(req[r]))
  /\ UNCHANGED <<colvars, store, written, envvars>>


\* --------------------------------------------------------- the scanner
\* parseAllData(): in production no file is read and three empty arrays are
\* returned; otherwise the result is what the planning directory holds
\* (variant: the files are scanned in production as well)
ParseAllDataScanning(scans) == scans

ParseAllData(scans) == IF isProd THEN {EmptyPayload} ELSE scans

\* `Bearer ${cronSecret}`
Bearer(secret) == "Bearer " \o secret

AuthHeaders == {"", "Bearer s3cret", "Bearer wrong"}

\* cronSecret && authHeader !== `Bearer ${cronSecret}`
\* (variant: only a request without the header is turned away)
UnauthorizedMissingOnly(hdr) == cronSecret # "" /\ hdr = ""

Unauthorized(hdr) == cronSecret # "" /\ hdr # Bearer(cronSecret)

\* the published data is fresh: its last publish is less than the TTL ago
Fresh == published # <<>> /\ now - published[1] < TTL

NewReq(kind, stages) == [IdleReq EXCEPT !.kind = kind, !.stages = stages]

\* parseAllData() threw: the handler's catch block answers 500
\* (variant: the {status: 500} option is left out)
ScanFailedOk(rq) == Respond([rq EXCEPT !.scanErr = TRUE], 200)

ScanFailed(rq) == Respond([rq EXCEPT !.scanErr = TRUE], 500)

\* !body.projects || !body.tasks || !body.outputs: has holds the fields of
\* the body that are present and truthy
\* (variant: outputs is not looked at)
InvalidSyncDataNoOutputs(body) == ~({"projects", "tasks"} \subseteq body.has)

InvalidSyncData(body) == body.has # Kinds

\* ------------------------------------- handlers of the store-backed revision
\* POST /api/refresh
RefreshPOST(r, scans) ==
  /\ variant = "store"
  /\ Free(r)
  /\ LET rq == [NewReq("refresh", <<"syncAll", "getAllStats", "disconnect">>)
                  EXCEPT !.parsed = TRUE, !.fresh = Fresh]
     IN  \/ /\ ~isProd   \* a file-system call of the scan throws
            /\ Apply(r, Keep(ScanFailed(rq)))
         \/ \E scan \in ParseAllData(scans) :
              Apply(r, EnterFn([rq EXCEPT !.has = Kinds, !.payload = scan],
                               "syncAll"))
  /\ UNCHANGED <<colvars, store, written, envvars>>

\* GET /api/cron/sync of a request whose authorization header is hdr ("" when
\* the request has none)
CronGETWith(r, hdr, scans) ==
  /\ variant = "store"
  /\ Free(r)
  /\ LET rq == [NewReq("cron", <<"syncAll", "getAllStats", "healthCheck",
                                   "disconnect">>)
                    EXCEPT !.parsed = TRUE, !.fresh = Fresh]
       IN  IF Unauthorized(hdr)
           THEN Apply(r, Keep(Respond(NewReq("cron", <<>>), 401)))
           ELSE \/ /\ ~isProd
                   /\ Apply(r, Keep(ScanFailed(rq)))
                \/ \E scan \in ParseAllData(scans) :
                     Apply(r, EnterFn([rq EXCEPT !.has = Kinds,
                                                 !.payload = scan],
                                      "syncAll"))
  /\ UNCHANGED <<colvars, store, written, envvars>>

\* GET /api/cron/sync
CronGET(r, scans) == \E hdr \in AuthHeaders : CronGETWith(r, hdr, scans)

\* POST /api/webhook/sync.  A body is [json, has, payload, lastSync]: json is
\* FALSE when request.json() rejects or yields no object, has names the
\* fields the body carries.
WebhookPOST(r, bodies) ==
  /\ variant = "store"
  /\ Free(r)
  /\ \E body \in bodies :
       LET rq == [NewReq("webhookPost", <<"syncAll", "disconnect">>)
                    EXCEPT !.json = body.json, !.has = body.has,
                           !.payload = body.payload, !.fresh = Fresh]
       IN  IF ~body.json THEN Apply(r, Throw(rq))
           ELSE IF InvalidSyncData(body) THEN Apply(r, Keep(Respond(rq, 400)))
           ELSE Apply(r, EnterFn(rq, "syncAll"))
  /\ UNCHANGED <<colvars, store, written, envvars>>

\* GET /api/webhook/sync
WebhookGET(r) ==
  /\ variant = "store"
  /\ Free(r)
  /\ Apply(r, EnterFn([NewReq("webhookGet",
                              <<"healthCheck", "getAllStats", "disconnect">>)
                         EXCEPT !.fresh = Fresh],
                      "healthCheck"))
  /\ UNCHANGED <<colvars, store, written, envvars>>

\* a store function called on its own (scripts, API routes): args is
\* [doc, query, payload]
Call(r, fn, args) ==
  /\ variant = "store"
  /\ Free(r)
  /\ Apply(r, EnterFn([NewReq(fn, <<fn>>) EXCEPT !.doc = args.doc,
                                                !.query = args.query,
                                                !.payload = args.payload],
                      fn))
  /\ UNCHANGED <<colvars, store, written, envvars>>


\* ------------------------------------------------ the in-memory Cache class
\* get(): the snapshot unless it is missing or older than the TTL
\* (variant: the age is not looked at)
CacheGetAlways == cache

CacheGet ==
  IF cache = <<>> THEN <<>>
  ELSE IF now - cache[1].timestamp > TTL THEN <<>> ELSE cache

\* set(data): {...data, timestamp: Date.now()}
\* (variant: lastSync of the snapshot being replaced is kept)
CacheSetMerge(data) ==
  <<[payload |-> data.payload,
     lastSync |-> IF cache = <<>> THEN data.lastSync ELSE cache[1].lastSync,
     timestamp |-> now]>>

\* (variant: the timestamp of the snapshot being replaced is kept)
CacheSetKeepStamp(data) ==
  <<[payload |-> data.payload, lastSync |-> data.lastSync,
     timestamp |-> IF cache = <<>> THEN now ELSE cache[1].timestamp]>>

CacheSet(data) ==
  <<[payload |-> data.payload, lastSync |-> data.lastSync, timestamp |-> now]>>

\* isValid()
CacheIsValid == cache # <<>> /\ now - cache[1].timestamp < TTL

\* Math.round(x / 1000) for x >= 0
RoundSeconds(x) == (x + 500) \div 1000

\* getAge()
CacheGetAge ==
  IF cache = <<>> THEN -1 ELSE RoundSeconds(now - cache[1].timestamp)

storevars == <<modvars, clients, store, written>>

\* ------------------------------------- handlers of the cache-backed revision
\* cache.set(data), which is also a publish
Publish(data) ==
  /\ cache' = CacheSet(data)
  /\ published' = <<now>>
  /\ lastSet' = <<data>>

\* POST /api/refresh: "Forces a cache refresh regardless of age"
RefreshPOSTCache(r, scans) ==
  /\ variant = "cache"
  /\ Free(r)
  /\ LET rq == [NewReq("refresh", <<>>) EXCEPT !.parsed = TRUE, !.fresh = Fresh]
     IN  \/ /\ ~isProd
            /\ req' = [req EXCEPT ![r] = ScanFailed(rq)]
            /\ UNCHANGED <<cache, published, lastSet>>
         \/ \E scan \in ParseAllData(scans) :
              /\ Publish([payload |-> scan, lastSync |-> now])
              /\ req' = [req EXCEPT ![r] =
                           Respond([rq EXCEPT !.has = Kinds,
                                              !.stats = [k \in Kinds |->
                                                           Len(scan[k])]],
                                   200)]
  /\ UNCHANGED <<storevars, now, variant, kv, cronSecret, isProd>>

\* const isStale = !cache.isValid()
\* (variant: the cache is never taken to be valid)
IsStaleAlways == TRUE

IsStale == ~CacheIsValid

\* GET /api/cron/sync of a request whose authorization header is hdr:
\* refreshes the cache only when it is stale
CronGETCacheWith(r, hdr, scans) ==
  /\ variant = "cache"
  /\ Free(r)
  /\ LET rq == [NewReq("cron", <<>>) EXCEPT !.valid = ~IsStale,
                                             !.age = CacheGetAge,
                                             !.fresh = Fresh]
       IN  IF Unauthorized(hdr)
           THEN /\ req' = [req EXCEPT ![r] = Respond(NewReq("cron", <<>>), 401)]
                /\ UNCHANGED <<cache, published, lastSet>>
           ELSE IF IsStale
           THEN \/ /\ ~isProd
                   /\ req' = [req EXCEPT ![r] =
                                ScanFailed([rq EXCEPT !.parsed = TRUE])]
                   /\ UNCHANGED <<cache, published, lastSet>>
                \/ \E scan \in ParseAllData(scans) :
                     /\ Publish([payload |-> scan, lastSync |-> now])
                     /\ req' = [req EXCEPT ![r] =
                                  Respond([rq EXCEPT
                                             !.parsed = TRUE, !.has = Kinds,
                                             !.stats = [k \in Kinds |->
                                                          Len(scan[k])]],
                                          200)]
           ELSE /\ req' = [req EXCEPT ![r] = Respond(rq, 200)]
                /\ UNCHANGED <<cache, published, lastSet>>
  /\ UNCHANGED <<storevars, now, variant, kv, cronSecret, isProd>>

\* GET /api/cron/sync
CronGETCache(r, scans) ==
  \E hdr \in AuthHeaders : CronGETCacheWith(r, hdr, scans)

\* POST /api/webhook/sync: lastSync is body.lastSync || new Date()
WebhookPOSTCache(r, bodies) ==
  /\ variant = "cache"
  /\ Free(r)
  /\ \E body \in bodies :
       LET rq == [NewReq("webhookPost", <<>>)
                    EXCEPT !.json = body.json, !.has = body.has,
                           !.payload = body.payload, !.fresh = Fresh]
       IN  IF ~body.json
           THEN /\ req' = [req EXCEPT ![r] = Respond(rq, 500)]
                /\ UNCHANGED <<cache, published, lastSet>>
           ELSE IF InvalidSyncData(body)
           THEN /\ req' = [req EXCEPT ![r] = Respond(rq, 400)]
                /\ UNCHANGED <<cache, published, lastSet>>
           ELSE /\ Publish([payload |-> body.payload,
                            lastSync |-> IF body.lastSync = 0
                                         THEN now
                                         ELSE body.lastSync])
                /\ req' = [req EXCEPT ![r] = Respond(rq, 200)]
  /\ UNCHANGED <<storevars, now, variant, kv, cronSecret, isProd>>

\* GET /api/webhook/sync: the cache status
WebhookGETCache(r) ==
  /\ variant = "cache"
  /\ Free(r)
  /\ req' = [req EXCEPT ![r] =
               Respond([NewReq("webhookGet", <<>>) EXCEPT
                          !.age = CacheGetAge, !.valid = CacheIsValid,
                          !.fresh = Fresh],
                       200)]
  /\ UNCHANGED <<storevars, cache, now, variant, published, lastSet, kv,
                 cronSecret, isProd>>

\* wall-clock time passes
TickSteps == {150000, 150001}

Tick ==
  /\ variant = "cache"
  /\ \E d \in TickSteps :
       /\ now + d <= MaxTime
       /\ now' = now + d
  /\ UNCHANGED <<storevars, req, cache, variant, published, lastSet, kv,
                 cronSecret, isProd>>


\* ------------------------------------------------------------- inputs
Payloads(P, T, O, n) ==
  {[k \in Kinds |-> CASE k = "projects" -> ps [] k = "tasks" -> ts
                      [] k = "outputs" -> os] :
     ps \in SeqsUpTo(P, n), ts \in SeqsUpTo(T, n), os \in SeqsUpTo(O, n)}

\* project directories have distinct names, so a scan yields distinct slugs
DistinctSlugs(ps) == \A i, j \in 1..Len(ps) : ps[i].slug = ps[j].slug => i = j

\* what the planning directory of the handler runs can hold
DirProjects == {[slug |-> "alpha", status |-> st] : st \in ProjectStatuses}

DirTasks == {[project |-> "alpha", id |-> "T-001", status |-> "todo"]}

DirOutputs == {[id |-> "o1", project |-> "alpha", task |-> "T-001"]}

Scans ==
  {p \in Payloads(DirProjects, DirTasks, DirOutputs, MaxFiles) :
     DistinctSlugs(p["projects"])}

\* webhook bodies: an absent field carries nothing
Bodies(stamps) ==
  UNION {{[json |-> TRUE, has |-> h, payload |-> p, lastSync |-> l] :
            l \in stamps,
            p \in {q \in Payloads(DirProjects, DirTasks, DirOutputs, MaxFiles) :
                     \A k \in Kinds \ h : q[k] = <<>>}} :
         h \in SUBSET Kinds}
  \cup {[json |-> FALSE, has |-> {}, payload |-> EmptyPayload, lastSync |-> 0]}

\* ------------------------------------------------------- specifications
InitStore ==
  /\ client = Null
  /\ db = Null
  /\ projectsCollection = Null
  /\ tasksCollection = Null
  /\ outputsCollection = Null
  /\ clients = [c \in 1..MaxClients |-> "free"]
  /\ store = EmptyStore
  /\ written = [k \in Kinds |-> [key \in KeysOf(k) |-> <<>>]]
  /\ req = [r \in Reqs |-> IdleReq]
  /\ cache = <<>>
  /\ now = 0
  /\ published = <<>>
  /\ lastSet = <<>>
  /\ kv = <<>>

Init ==
  /\ InitStore
  /\ variant \in {"store", "cache"}
  /\ cronSecret \in {"", "s3cret"}
  /\ isProd \in BOOLEAN

\* the awaits of the functions the handlers call
HandlerSteps(r) ==
  \/ ConnWaitDone(r)
  \/ IdxWaitDone(r)
  \/ ConnRet(r)
  \/ CloseDone(r)
  \/ OpFail(r)
  \/ GetAllStatsDone(r)
  \/ PingDone(r)
  \/ \E k \in Kinds : BulkStep(r, k)
  \/ \E k \in Kinds : BulkFail(r, k)
  \/ BatchesResolve(r)
  \/ BatchesReject(r)

\* the response has been sent and the writes the request left in flight have
\* settled: its slot is free again
Return(r) ==
  /\ req[r].pc = "done"
  /\ \A k \in Kinds : req[r].batch[k].st # "inflight"
  /\ req' = [req EXCEPT ![r] = IdleReq]
  /\ UNCHANGED <<modvars, clients, store, written, envvars>>

\* requests served one at a time (spec section 5), either revision
Next ==
  \/ RefreshPOST(1, Scans)
  \/ CronGET(1, Scans)
  \/ WebhookPOST(1, Bodies({0}))
  \/ WebhookGET(1)
  \/ HandlerSteps(1)
  \/ RefreshPOSTCache(1, Scans)
  \/ CronGETCache(1, Scans)
  \/ WebhookPOSTCache(1, Bodies({0, 1}))
  \/ WebhookGETCache(1)
  \/ Tick
  \/ Return(1)

Spec == Init /\ [][Next]_vars

\* ------------------------------ the store's functions called one at a time
NoArgs == [doc |-> <<>>, query |-> <<>>, payload |-> EmptyPayload]

Lists(k, n) ==
  CASE k = "projects" -> SeqsUpTo(Projects, n)
    [] k = "tasks" -> SeqsUpTo(Tasks, n)
    [] k = "outputs" -> SeqsUpTo(Outputs, n)

Docs(k) ==
  CASE k = "projects" -> Projects [] k = "tasks" -> Tasks
    [] k = "outputs" -> Outputs

\* getProject(slug), getTask(id, project?), getOutput(id), and the deletes
KeyQueries(k) ==
  CASE k = "projects" -> {[slug |-> x] : x \in Slugs}
    [] k = "tasks" -> {[id |-> x] : x \in TaskIds}
                      \cup {[project |-> p, id |-> x] : p \in Slugs, x \in TaskIds}
    [] k = "outputs" -> {[id |-> x] : x \in OutputIds}

\* the filters of getProjects, getTasks, getOutputs: `filter || {}`
Filters(k) ==
  CASE k = "projects" -> {<<>>} \cup {[status |-> x] : x \in ProjectStatuses}
    [] k = "tasks" -> {<<>>} \cup {[project |-> p] : p \in Slugs}
                      \cup {[status |-> x] : x \in TaskStatuses}
                      \cup {[project |-> p, status |-> x] :
                              p \in Slugs, x \in TaskStatuses}
    [] k = "outputs" -> {<<>>} \cup {[project |-> p] : p \in Slugs}
                        \cup {[task |-> x] : x \in TaskIds}
                        \cup {[project |-> p, task |-> x] :
                                p \in Slugs, x \in TaskIds}

\* syncAll({projects, tasks, outputs}) as the scripts call it
SyncPayloads ==
  Payloads(Projects, {t \in Tasks : t.project = "alpha" /\ t.id = "T-001"},
           {o \in Outputs : o.id = "o1"}, MaxFiles)

CallArgs(fn) ==
  CASE fn \in StoreOneFns ->
         {[NoArgs EXCEPT !.doc = <<d>>] : d \in Docs(KindOf(fn))}
    [] fn \in GetOneFns \cup DeleteFns ->
         {[NoArgs EXCEPT !.query = q] : q \in KeyQueries(KindOf(fn))}
    [] fn \in GetAllFns ->
         {[NoArgs EXCEPT !.query = q] : q \in Filters(KindOf(fn))}
    [] fn \in BatchFns \ {"syncAll"} ->
         {[NoArgs EXCEPT !.payload[KindOf(fn)] = l] :
            l \in Lists(KindOf(fn), MaxBatch)}
    [] fn = "syncAll" -> {[NoArgs EXCEPT !.payload = p] : p \in SyncPayloads}
    [] OTHER -> {NoArgs}

ServiceFns == {"getAllStats", "healthCheck", "connect", "disconnect"}

ProjectFns ==
  {"storeProject", "getProject", "getProjects", "deleteProject", "storeProjects"}

TaskFns == {"storeTask", "getTask", "getTasks", "deleteTask", "storeTasks"}

OutputFns ==
  {"storeOutput", "getOutput", "getOutputs", "deleteOutput", "storeOutputs"}

InitCalls ==
  /\ InitStore
  /\ variant = "store"
  /\ cronSecret = ""
  /\ isProd = FALSE

Calls(fns) == \E fn \in fns : \E args \in CallArgs(fn) : Call(1, fn, args)

\* calls of the project functions
NextProjects ==
  \/ Calls(ProjectFns \cup ServiceFns)
  \/ HandlerSteps(1)
  \/ StoreOneDone(1)
  \/ GetOneDone(1)
  \/ GetAllDone(1)
  \/ DeleteDone(1)
  \/ Return(1)

SpecProjects == InitCalls /\ [][NextProjects]_vars

\* calls of the task functions
NextTasks ==
  \/ Calls(TaskFns \cup ServiceFns)
  \/ HandlerSteps(1)
  \/ StoreOneDone(1)
  \/ GetOneDone(1)
  \/ GetAllDone(1)
  \/ DeleteDone(1)
  \/ Return(1)

SpecTasks == InitCalls /\ [][NextTasks]_vars

\* calls of syncAll and of the three filtered retrievals
NextSync ==
  \/ Calls({"syncAll"} \cup GetAllFns \cup ServiceFns)
  \/ HandlerSteps(1)
  \/ GetAllDone(1)
  \/ Return(1)

SpecSync == InitCalls /\ [][NextSync]_vars

\* ----------------------------------- requests of the store-backed revision
\* that overlap, with calls of connect()
ConcScans ==
  {EmptyPayload,
   [EmptyPayload EXCEPT !["projects"] = <<[slug |-> "alpha", status |-> "active"]>>]}

ConcBodies ==
  {[json |-> TRUE, has |-> Kinds, payload |-> p, lastSync |-> 0] : p \in ConcScans}
  \cup {[json |-> TRUE, has |-> {"projects", "tasks"}, payload |-> EmptyPayload,
         lastSync |-> 0]}

InitConc ==
  /\ InitStore
  /\ variant = "store"
  /\ cronSecret = ""
  /\ isProd = FALSE

NextConc ==
  \E r \in Reqs :
    \/ RefreshPOST(r, ConcScans)
    \/ CronGET(r, ConcScans)
    \/ WebhookPOST(r, ConcBodies)
    \/ WebhookGET(r)
    \/ Call(r, "connect", NoArgs)
    \/ HandlerSteps(r)
    \/ Return(r)

SpecConc == InitConc /\ [][NextConc]_vars

\* ------------------------- callers of connect() that overlap, no disconnect()
NextConnect ==
  \E r \in Reqs :
    \/ Call(r, "connect", NoArgs)
    \/ Call(r, "getAllStats", NoArgs)
    \/ ConnWaitDone(r)
    \/ IdxWaitDone(r)
    \/ ConnRet(r)
    \/ OpFail(r)
    \/ GetAllStatsDone(r)
    \/ Return(r)

SpecConnect == InitConc /\ [][NextConnect]_vars


\* ------------------------------------- the Cache class and its callers
\* clear()
CacheClear == <<>>

\* cache.get() called on its own
CacheGetCall(r) ==
  /\ variant = "cache"
  /\ Free(r)
  /\ req' = [req EXCEPT ![r] =
               Respond([NewReq("cache.get", <<>>) EXCEPT
                          !.found = Range(CacheGet)], 200)]
  /\ UNCHANGED <<storevars, cache, now, variant, published, lastSet, kv,
                 cronSecret, isProd>>

\* cache.set(data) called on its own
CacheSetCall(r, data) ==
  /\ variant = "cache"
  /\ Free(r)
  /\ Publish(data)
  /\ req' = [req EXCEPT ![r] =
               Respond([NewReq("cache.set", <<>>) EXCEPT !.doc = <<data>>], 200)]
  /\ UNCHANGED <<storevars, now, variant, kv, cronSecret, isProd>>

\* cache.clear() called on its own
CacheClearCall(r) ==
  /\ variant = "cache"
  /\ Free(r)
  /\ cache' = CacheClear
  /\ req' = [req EXCEPT ![r] = Respond(NewReq("cache.clear", <<>>), 200)]
  /\ UNCHANGED <<storevars, now, variant, published, lastSet, kv, cronSecret,
                 isProd>>

\* cache.isValid() called on its own
CacheIsValidCall(r) ==
  /\ variant = "cache"
  /\ Free(r)
  /\ req' = [req EXCEPT ![r] =
               Respond([NewReq("cache.isValid", <<>>) EXCEPT
                          !.valid = CacheIsValid], 200)]
  /\ UNCHANGED <<storevars, cache, now, variant, published, lastSet, kv,
                 cronSecret, isProd>>

\* cache.getAge() called on its own
CacheGetAgeCall(r) ==
  /\ variant = "cache"
  /\ Free(r)
  /\ req' = [req EXCEPT ![r] =
               Respond([NewReq("cache.getAge", <<>>) EXCEPT
                          !.age = CacheGetAge], 200)]
  /\ UNCHANGED <<storevars, cache, now, variant, published, lastSet, kv,
                 cronSecret, isProd>>

\* GET /api/outputs of the cache-backed revision: the snapshot is read
\* through the cache, a missing or expired one is replaced by a scan first.
\* query holds the parameters project and task that are given and not empty.
OutputsGETCache(r, scans, query) ==
  /\ variant = "cache"
  /\ Free(r)
  /\ LET rq == [NewReq("outputsGet", <<>>) EXCEPT !.query = query]
     IN  IF CacheGet # <<>>
         THEN /\ req' = [req EXCEPT ![r] =
                           Respond([rq EXCEPT
                                      !.found =
                                        Find(Range(CacheGet[1].payload["outputs"]),
                                             query)],
                                   200)]
              /\ UNCHANGED <<cache, published, lastSet>>
         ELSE \/ /\ ~isProd
                 /\ req' = [req EXCEPT ![r] =
                              ScanFailed([rq EXCEPT !.parsed = TRUE])]
                 /\ UNCHANGED <<cache, published, lastSet>>
              \/ \E scan \in ParseAllData(scans) :
                   /\ Publish([payload |-> scan, lastSync |-> now])
                   /\ req' = [req EXCEPT ![r] =
                                Respond([rq EXCEPT
                                           !.parsed = TRUE,
                                           !.found =
                                             Find(Range(scan["outputs"]), query)],
                                        200)]
  /\ UNCHANGED <<storevars, now, variant, kv, cronSecret, isProd>>

\* the arguments of a direct cache.set: three lists and lastSync
SetArgs == {[payload |-> p, lastSync |-> now] : p \in ConcScans}

OutputQueries ==
  {<<>>, [project |-> "alpha"], [task |-> "T-001"],
   [project |-> "beta", task |-> "T-001"]}

CacheScans ==
  ConcScans
  \cup {[EmptyPayload EXCEPT
           !["outputs"] = <<[id |-> "o1", project |-> "alpha", task |-> "T-001"]>>]}

NextCache ==
  \/ CacheGetCall(1)
  \/ \E data \in SetArgs : CacheSetCall(1, data)
  \/ CacheClearCall(1)
  \/ CacheIsValidCall(1)
  \/ CacheGetAgeCall(1)
  \/ \E query \in OutputQueries : OutputsGETCache(1, CacheScans, query)
  \/ RefreshPOSTCache(1, ConcScans)
  \/ CronGETCache(1, ConcScans)
  \/ WebhookPOSTCache(1, {b \in Bodies({0, 1}) : b.payload \in ConcScans})
  \/ Tick
  \/ Return(1)

InitCache ==
  /\ InitStore
  /\ variant = "cache"
  /\ cronSecret = ""
  /\ isProd = FALSE

SpecCache == InitCache /\ [][NextCache]_vars


\* --------------------------------------- the cache persisted in Vercel KV
\* const TTL = 5 * 60, in seconds
KvTTL == 300

KvFns == {"kv.get", "kv.set", "kv.clear", "kv.isValid", "kv.getAge"}

\* what kv.get(CACHE_KEY) resolves to.  The entry was written with {ex: TTL}:
\* the server drops it TTL seconds after the write, and at that very instant
\* it may or may not be there still.
KvRead ==
  IF kv = <<>> THEN {<<>>}
  ELSE IF now - kv[1].applied < KvTTL * 1000 THEN {<<kv[1].data>>}
  ELSE IF now - kv[1].applied > KvTTL * 1000 THEN {<<>>}
  ELSE {<<>>, <<kv[1].data>>}

\* get() after its await, data being what kv.get resolved to
KvGetOf(data) ==
  IF data = <<>> THEN <<>>
  ELSE IF now - data[1].timestamp > KvTTL * 1000 THEN <<>> ELSE data

\* isValid(): (await get()) !== null
KvIsValidOf(data) == KvGetOf(data) # <<>>

\* getAge(): -1 unless get() returns the snapshot
KvGetAgeOf(data) ==
  IF KvGetOf(data) = <<>> THEN -1
  ELSE RoundSeconds(now - data[1].timestamp)

\* a function of the KV cache from its entry to its await; set() has built
\* cacheData = {...data, timestamp: Date.now()} by then
KvBegin(r, fn, data) ==
  /\ variant = "cache"
  /\ Free(r)
  /\ req' = [req EXCEPT ![r] =
               [NewReq(fn, <<fn>>) EXCEPT
                  !.pc = "kvWait",
                  !.doc = IF fn = "kv.set"
                          THEN <<[payload |-> data.payload,
                                  lastSync |-> data.lastSync,
                                  timestamp |-> now]>>
                          ELSE <<>>]]
  /\ UNCHANGED <<storevars, cache, now, variant, published, lastSet, kv,
                 cronSecret, isProd>>

\* the awaited kv call resolves and the function returns
KvResolve(r) ==
  LET fn == req[r].kind
  IN  /\ req[r].pc = "kvWait"
      /\ \E read \in KvRead :
           req' = [req EXCEPT ![r] =
                     Respond([req[r] EXCEPT
                                !.found = IF fn = "kv.get"
                                          THEN Range(KvGetOf(read)) ELSE @,
                                !.valid = IF fn = "kv.isValid"
                                          THEN KvIsValidOf(read) ELSE @,
                                !.age = IF fn = "kv.getAge"
                                        THEN KvGetAgeOf(read) ELSE @],
                             200)]
      /\ kv' = CASE fn = "kv.set" -> <<[data |-> req[r].doc[1], applied |-> now]>>
                 [] fn = "kv.clear" -> <<>>
                 [] OTHER -> kv
      /\ UNCHANGED <<storevars, cache, now, variant, published, lastSet,
                     cronSecret, isProd>>

\* the awaited kv call rejects: get() returns null from its catch block, and
\* so isValid() returns false and getAge() -1; set() and clear() log and
\* rethrow
KvReject(r) ==
  LET fn == req[r].kind
  IN  /\ req[r].pc = "kvWait"
      /\ req' = [req EXCEPT ![r] =
                   [Respond([req[r] EXCEPT !.found = {}, !.valid = FALSE,
                                           !.age = -1],
                            IF fn \in {"kv.set", "kv.clear"} THEN 500 ELSE 200)
                      EXCEPT !.err = TRUE]]
      /\ UNCHANGED <<storevars, cache, now, variant, published, lastSet, kv,
                     cronSecret, isProd>>

NextKv ==
  \/ \E r \in Reqs :
       \/ \E fn \in KvFns \ {"kv.set"} : KvBegin(r, fn, <<>>)
       \/ \E data \in SetArgs : KvBegin(r, "kv.set", data)
       \/ KvResolve(r)
       \/ KvReject(r)
       \/ Return(r)
  \/ Tick

SpecKv == InitCache /\ [][NextKv]_vars

\* ------------------- both caches driven by the same calls at the same times
\* set(data) on both, no backend error
TwinSet(data) ==
  /\ variant = "cache"
  /\ Publish(data)
  /\ kv' = <<[data |-> CacheSet(data)[1], applied |-> now]>>
  /\ UNCHANGED <<storevars, req, now, variant, cronSecret, isProd>>

\* clear() on both
TwinClear ==
  /\ variant = "cache"
  /\ cache' = CacheClear
  /\ kv' = <<>>
  /\ UNCHANGED <<storevars, req, now, variant, published, lastSet, cronSecret,
                 isProd>>

\* get(), isValid() and getAge() on both at one clock reading: request 1 holds
\* the answers of the Cache class, request 2 those of the KV cache
TwinQuery ==
  /\ variant = "cache"
  /\ Free(1) /\ Free(2)
  /\ \E g, v, a \in KvRead :
       req' = [req EXCEPT
                 ![1] = Respond([NewReq("cache.query", <<>>) EXCEPT
                                   !.found = Range(CacheGet),
                                   !.valid = CacheIsValid,
                                   !.age = CacheGetAge], 200),
                 ![2] = Respond([NewReq("kv.query", <<>>) EXCEPT
                                   !.found = Range(KvGetOf(g)),
                                   !.valid = KvIsValidOf(v),
                                   !.age = KvGetAgeOf(a)], 200)]
  /\ UNCHANGED <<storevars, cache, now, variant, published, lastSet, kv,
                 cronSecret, isProd>>

\* both answers have been consumed
TwinReturn ==
  /\ req[1].pc = "done" /\ req[2].pc = "done"
  /\ req' = [req EXCEPT ![1] = IdleReq, ![2] = IdleReq]
  /\ UNCHANGED <<modvars, clients, store, written, envvars>>

NextTwin ==
  \/ \E data \in {[payload |-> p, lastSync |-> now] : p \in CacheScans} :
       TwinSet(data)
  \/ TwinClear
  \/ TwinQuery
  \/ TwinReturn
  \/ Tick

SpecTwin == InitCache /\ [][NextTwin]_vars


\* ------------------------------------------------------------ properties
\* a store function called on its own has returned normally
Returned(r, fn) ==
  /\ req[r].kind = fn
  /\ req[r].pc = "done"
  /\ req[r].status = 200

\* the records the applied writes leave, by kind
Latest(k) == UNION {Range(written[k][key]) : key \in KeysOf(k)}

\* C1: the projects collection holds at most one record per slug, the one of
\* the latest write for that slug, and getProjects({status: "active"}) returns
\* exactly the records whose latest write has status "active"
C1_ProjectUpsert ==
  /\ \A slug \in Slugs :
       Find(store["projects"], [slug |-> slug]) = Range(written["projects"][slug])
  /\ \A r \in Reqs :
       Returned(r, "getProjects") /\ DOMAIN req[r].query = {"status"}
         => req[r].found = {d \in Latest("projects") :
                              d.status = req[r].query.status}

\* getProjects({status: "active"}) has returned beta only, while the latest
\* write for alpha has status "done"
C1_Witness ==
  /\ Returned(1, "getProjects")
  /\ DOMAIN req[1].query = {"status"}
  /\ req[1].query.status = "active"
  /\ written["projects"]["alpha"] = <<[slug |-> "alpha", status |-> "done"]>>
  /\ req[1].found = {[slug |-> "beta", status |-> "active"]}

Begins(r) == req[r].pc = "idle" /\ req'[r].pc # "idle"

\* the request has no write left in flight and never had one
NoBatches(rq) == \A k \in Kinds : rq.batch[k].st = "none"

\* C3: a webhook POST whose (JSON object) body lacks one of projects, tasks,
\* outputs is answered 400 in the step that receives it, with no call of
\* syncAll or cache.set: store, cache and publish time are unchanged
C3_WebhookRejects ==
  [][\A r \in Reqs :
       Begins(r) /\ req'[r].kind = "webhookPost" /\ req'[r].json
                 /\ req'[r].has # Kinds
         => /\ req'[r].pc = "done"
            /\ req'[r].status = 400
            /\ NoBatches(req'[r])
            /\ UNCHANGED <<store, written, cache, published>>]_vars

\* a body without outputs was answered 400 while the store held a project
C3_Witness ==
  /\ req[1].kind = "webhookPost"
  /\ req[1].pc = "done"
  /\ req[1].status = 400
  /\ req[1].has = {"projects", "tasks"}
  /\ store["projects"] # {}

\* C4: when the scan of a refresh or cron request throws, the request is
\* answered 500 in that step and store, cache and publish time are unchanged
C4_ScanFailure ==
  [][\A r \in Reqs :
       Begins(r) /\ req'[r].scanErr
         => /\ req'[r].kind \in {"refresh", "cron"}
            /\ req'[r].pc = "done"
            /\ req'[r].status = 500
            /\ NoBatches(req'[r])
            /\ UNCHANGED <<store, written, cache, published>>]_vars

\* the scan of a refresh threw while a snapshot was cached
C4_Witness ==
  /\ req[1].kind = "refresh"
  /\ req[1].scanErr
  /\ req[1].status = 500
  /\ cache # <<>>

\* C5: once syncAll has returned normally every collection holds exactly the
\* records passed in for its kind
C5_SyncAllReplaces ==
  \A r \in Reqs :
    Returned(r, "syncAll")
      => \A k \in Kinds : store[k] = Range(req[r].payload[k])

\* C6: a request one of whose batches failed is never answered 200, a sync
\* answered 200 has all three batches applied, and every write a batch applied
\* is in the store whatever became of the other batches
C6_SyncNotAtomic ==
  /\ \A r \in Reqs :
       /\ (\E k \in Kinds : req[r].batch[k].st = "failed") => req[r].status # 200
       /\ req[r].status = 200 /\ variant = "store"
            /\ req[r].kind \in {"refresh", "cron", "webhookPost"}
            => \A k \in Kinds : req[r].batch[k].st = "ok"
  /\ \A k \in Kinds : store[k] = Latest(k)

\* the projects batch was applied, the tasks batch failed, and the request was
\* answered 500 with the project in the store and no task
C6_Witness ==
  /\ req[1].pc = "done"
  /\ req[1].status = 500
  /\ req[1].batch["projects"].st = "ok"
  /\ req[1].batch["tasks"].st = "failed"
  /\ store["projects"] # {}
  /\ store["tasks"] = {}

\* the MongoClient objects that are connecting or connected
Live == {c \in 1..MaxClients : clients[c] \in {"connecting", "open"}}

\* C7: at most one client is live at any time, and connect() hands its caller
\* the handle of a connected client
C7_SingleConnection ==
  /\ Cardinality(Live) <= 1
  /\ \A r \in Reqs :
       req[r].pc = "connRet" /\ ~req[r].err
         => req[r].ret # Null /\ clients[req[r].ret] = "open"

\* C8: no handler is inside disconnect() while a store operation of another
\* request is in flight on the client being closed
C8_NoTeardownInHandlers ==
  \A r, o \in Reqs :
    req[r].kind \in HandlerKinds /\ req[r].pc = "closeWait" /\ o # r
      => ~(req[o].pc \in {"opWait", "batches"} /\ req[o].h = req[r].h)

\* C9 as stated: an authorized cron request that finds the published data
\* fresh performs no scan and publishes nothing, in either revision
C9_CronChecksFreshness ==
  [][\A r \in Reqs :
       Begins(r) /\ req'[r].kind = "cron" /\ req'[r].status # 401 /\ Fresh
         => /\ ~req'[r].parsed
            /\ req'[r].pc = "done"
            /\ UNCHANGED <<store, cache, published>>]_vars

\* C9 amended: the cache-backed cron handler scans and publishes exactly when
\* cache.isValid() is false, and leaves a valid snapshot alone; the
\* store-backed cron handler scans on every authorized request
C9_CronByRevision ==
  [][\A r \in Reqs :
       Begins(r) /\ req'[r].kind = "cron" /\ req'[r].status # 401
         => IF variant = "cache"
            THEN IF CacheIsValid
                 THEN /\ ~req'[r].parsed
                      /\ req'[r].status = 200
                      /\ UNCHANGED <<cache, published>>
                 ELSE /\ req'[r].parsed
                      /\ req'[r].status = 200 => cache'[1].timestamp = now
            ELSE req'[r].parsed]_vars

\* a cron request found the snapshot valid and did not scan
C9_Witness ==
  /\ req[1].kind = "cron"
  /\ req[1].status = 200
  /\ req[1].valid
  /\ ~req[1].parsed
  /\ cache # <<>>

\* C10: every refresh POST scans; the store-backed one is answered 200 only
\* with all three batches of the scan applied, and the cache-backed one, when
\* answered 200, has set the snapshot to a scan stamped with the current time
C10_ManualRefresh ==
  /\ [](\A r \in Reqs :
          req[r].kind = "refresh"
            => /\ req[r].parsed
               /\ req[r].status = 200 /\ variant = "store"
                    => \A k \in Kinds : req[r].batch[k].st = "ok")
  /\ [][\A r \in Reqs :
          Begins(r) /\ req'[r].kind = "refresh"
            => IF variant = "cache"
               THEN req'[r].status = 200
                      => /\ cache' # <<>>
                         /\ cache'[1].timestamp = now
                         /\ cache'[1].lastSync = now
                         /\ cache'[1].payload \in ParseAllData(Scans)
                         /\ req'[r].stats =
                              [k \in Kinds |-> Len(cache'[1].payload[k])]
                         /\ published' = <<now>>
               ELSE req'[r].scanErr
                      \/ /\ req'[r].payload \in ParseAllData(Scans)
                         /\ Head(req'[r].stages) = "syncAll"]_vars

\* a refresh answered 200 replaced a snapshot that was still within its TTL
C10_Witness ==
  /\ req[1].kind = "refresh"
  /\ req[1].status = 200
  /\ req[1].fresh
  /\ variant = "cache"
  /\ now > 0
  /\ cache[1].timestamp = now

\* C11: with a cron secret configured, a cron request whose authorization
\* header is not "Bearer <secret>" is answered 401 with no scan, no write to
\* store or cache and no client opened or closed; with no secret configured
\* no cron request is answered 401
C11_CronAuthorization ==
  [][\A r \in Reqs, hdr \in AuthHeaders :
       /\ /\ cronSecret # ""
          /\ hdr # "Bearer " \o cronSecret
          /\ CronGETWith(r, hdr, Scans) \/ CronGETCacheWith(r, hdr, Scans)
          => /\ req'[r].status = 401
             /\ req'[r].pc = "done"
             /\ ~req'[r].parsed
             /\ NoBatches(req'[r])
             /\ UNCHANGED <<modvars, clients, store, written, cache,
                            published>>
       /\ cronSecret = "" /\ req'[r].status = 401
          => ~(CronGETWith(r, hdr, Scans) \/ CronGETCacheWith(r, hdr, Scans))]_vars

\* a cron request was answered 401 while a secret is configured and the store
\* holds a project
C11_Witness ==
  /\ cronSecret # ""
  /\ req[1].kind = "cron"
  /\ req[1].status = 401
  /\ store["projects"] # {}

\* the age of the held snapshot, in milliseconds
Age == now - cache[1].timestamp

\* C12: set() stamps the snapshot with the current time; called at the clock
\* reading of that set(), isValid() is true, getAge() is 0 and get() returns
\* the snapshot; called when the snapshot is more than TTL old, get() returns
\* nothing and isValid() is false
C12_CacheFreshness ==
  [][\A r \in Reqs :
       Begins(r)
         => /\ req'[r].kind = "cache.set"
                 => cache' = <<[payload |-> req'[r].doc[1].payload,
                                lastSync |-> req'[r].doc[1].lastSync,
                                timestamp |-> now]>>
            /\ cache # <<>> /\ Age = 0
                 => /\ req'[r].kind = "cache.isValid" => req'[r].valid
                    /\ req'[r].kind = "cache.getAge" => req'[r].age = 0
                    /\ req'[r].kind = "cache.get" => req'[r].found = {cache[1]}
            /\ cache # <<>> /\ Age > TTL
                 => /\ req'[r].kind = "cache.get" => req'[r].found = {}
                    /\ req'[r].kind = "cache.isValid" => ~req'[r].valid]_vars

\* get() has returned nothing for a held snapshot that is more than TTL old
C12_Witness ==
  /\ req[1].kind = "cache.get"
  /\ req[1].pc = "done"
  /\ req[1].found = {}
  /\ cache # <<>>
  /\ Age > TTL

\* C13: in every cache state and at every clock reading isValid() is true
\* exactly when get() returns a snapshot
C13_SameFreshnessRule == CacheIsValid <=> (CacheGet # <<>>)

\* the snapshot that the last set() stored
LastSnapshot ==
  [payload |-> lastSet[1].payload, lastSync |-> lastSet[1].lastSync,
   timestamp |-> published[1]]

C15_NoBackendErrorPropagated ==
  \A r \in Reqs :
    req[r].kind \in KvFns /\ req[r].pc = "done" /\ req[r].err
      => /\ req[r].status = 200
         /\ req[r].found = {}
         /\ ~req[r].valid
         /\ req[r].age = -1

\* C16: asked at one clock reading after the same calls of set() and clear(),
\* the Cache class and the KV cache give the same answers to get(), isValid()
\* and getAge()
C16_Interchangeable ==
  req[1].kind = "cache.query" /\ req[2].kind = "kv.query"
    => /\ req[1].found = req[2].found
       /\ req[1].valid = req[2].valid
       /\ req[1].age = req[2].age

\* C17: the counts a refresh is about to report, or has reported with status
\* 200, are the numbers of projects, tasks and outputs of its own scan
C17_RefreshCounts ==
  \A r \in Reqs :
    req[r].kind = "refresh"
      => /\ variant = "store" /\ req[r].pc = "closeWait"
              => \A k \in Kinds : req[r].stats[k] = Len(req[r].payload[k])
         /\ variant = "cache" /\ req[r].status = 200
              => \A k \in Kinds : req[r].stats[k] = Len(cache[1].payload[k])

\* ------------------------------------------- GET /api/tasks, GET /api/outputs
\* the most tasks a scan finds or the store holds in the filter specification
MaxTasks == 2

Owners == {"Alice", "Bob"}
Priorities == {"P1", "P2"}

\* a task with the fields the filters and the sort look at; updated is an ISO
\* timestamp, compared here as a number
FullTask ==
  [project : {"alpha"}, id : TaskIds, status : {"todo"}, owner : Owners,
   priority : Priorities, updated : 1..2]

FullTasks ==
  {t \in FullTask : t.id = "T-001" \/ (t.owner = "Bob" /\ t.priority = "P2")}

\* String.prototype.startsWith
StartsWith(s, prefix) ==
  Len(s) >= Len(prefix) /\ SubSeq(s, 1, Len(prefix)) = prefix

\* String.prototype.includes
Includes(s, sub) ==
  \E i \in 0..(Len(s) - Len(sub)) : SubSeq(s, i + 1, i + Len(sub)) = sub

UpperCase == "ABCDEFGHIJKLMNOPQRSTUVWXYZ"
LowerCase == "abcdefghijklmnopqrstuvwxyz"

LowerChar(c) ==
  IF \E i \in 1..26 : SubSeq(UpperCase, i, i) = c
  THEN LET i == CHOOSE j \in 1..26 : SubSeq(UpperCase, j, j) = c
       IN  SubSeq(LowerCase, i, i)
  ELSE c

RECURSIVE ToLowerCase(_)
\* String.prototype.toLowerCase
ToLowerCase(s) ==
  IF s = "" THEN ""
  ELSE LowerChar(SubSeq(s, 1, 1)) \o ToLowerCase(SubSeq(s, 2, Len(s)))

\* (variant: the prefix is added to every id that is not empty)
NormalizeTaskIdAlways(taskId) ==
  IF taskId = "" THEN taskId ELSE "T-" \o taskId

\* normalizeTaskId(taskId)
NormalizeTaskId(taskId) ==
  IF taskId = "" THEN taskId
  ELSE IF StartsWith(taskId, "T-") THEN taskId ELSE "T-" \o taskId

\* the fields of a parameter record that are given and not empty
Given(params) ==
  [f \in {g \in DOMAIN params : params[g] # ""} |-> params[f]]

\* the filter GET /api/tasks of the store-backed revision hands to getTasks
TasksFilterOf(params) ==
  Given([params EXCEPT
           !.id = IF @ # "" THEN NormalizeTaskId(@) ELSE @])

\* the filter GET /api/outputs of the store-backed revision hands to getOutputs
OutputsFilterOf(params) ==
  Given([params EXCEPT
           !.task = IF @ # "" THEN NormalizeTaskId(@) ELSE @])

\* .sort({updated: -1}).toArray(): the orders of docs by updated, latest first
SortUpdatedDesc(docs) ==
  {s \in [1..Cardinality(docs) -> docs] :
     /\ Range(s) = docs
     /\ \A i, j \in 1..Cardinality(docs) :
          i < j => s[i].updated >= s[j].updated}

\* GET /api/tasks of the store-backed revision; doc keeps the parameters of
\* the request
TasksGET(r, params) ==
  /\ variant = "store"
  /\ Free(r)
  /\ Apply(r, EnterFn([NewReq("tasksGet", <<"getTasks">>) EXCEPT
                         !.doc = <<params>>,
                         !.query = TasksFilterOf(params)],
                      "getTasks"))
  /\ UNCHANGED <<colvars, store, written, envvars>>

\* GET /api/outputs of the store-backed revision
OutputsGET(r, params) ==
  /\ variant = "store"
  /\ Free(r)
  /\ Apply(r, EnterFn([NewReq("outputsGet", <<"getOutputs">>) EXCEPT
                         !.doc = <<params>>,
                         !.query = OutputsFilterOf(params)],
                      "getOutputs"))
  /\ UNCHANGED <<colvars, store, written, envvars>>

\* find(query).sort({updated: -1}).toArray() of getTasks, with its order
GetTasksDone(r) ==
  /\ req[r].pc = "opWait"
  /\ Head(req[r].stages) = "getTasks"
  /\ LET hit == Find(store["tasks"], req[r].query)
     IN  \E tasks \in SortUpdatedDesc(hit) :
           Apply(r, Advance([req[r] EXCEPT !.h = Null, !.found = hit,
                                           !.list = tasks]))
  /\ UNCHANGED <<colvars, store, written, envvars>>

\* the three tasks.filter(...) of GET /api/tasks of the cache-backed revision
CacheTasksFilter(tasks, params) ==
  LET byProject == IF params.project # ""
                   THEN SelectSeq(tasks, LAMBDA t : t.project = params.project)
                   ELSE tasks
      byStatus == IF params.status # ""
                  THEN SelectSeq(byProject, LAMBDA t : t.status = params.status)
                  ELSE byProject
  IN  IF params.owner # ""
      THEN SelectSeq(byStatus,
                     LAMBDA t : Includes(ToLowerCase(t.owner),
                                         ToLowerCase(params.owner)))
      ELSE byStatus

\* GET /api/tasks of the cache-backed revision: the snapshot is read through
\* the cache, a missing or expired one is replaced by a scan first
TasksGETCache(r, scans, params) ==
  /\ variant = "cache"
  /\ Free(r)
  /\ LET rq == [NewReq("tasksGet", <<>>) EXCEPT !.doc = <<params>>]
         Answer(tasks) ==
           LET res == CacheTasksFilter(tasks, params)
           IN  [rq EXCEPT !.list = res, !.found = Range(res)]
     IN  IF CacheGet # <<>>
         THEN /\ req' = [req EXCEPT ![r] =
                           Respond(Answer(CacheGet[1].payload["tasks"]), 200)]
              /\ UNCHANGED <<cache, published, lastSet>>
         ELSE \/ /\ ~isProd
                 /\ req' = [req EXCEPT ![r] =
                              ScanFailed([rq EXCEPT !.parsed = TRUE])]
                 /\ UNCHANGED <<cache, published, lastSet>>
              \/ \E scan \in ParseAllData(scans) :
                   /\ Publish([payload |-> scan, lastSync |-> now])
                   /\ req' = [req EXCEPT ![r] =
                                Respond([Answer(scan["tasks"]) EXCEPT
                                           !.parsed = TRUE], 200)]
  /\ UNCHANGED <<storevars, now, variant, kv, cronSecret, isProd>>

\* the lists of tasks a scan finds: no two tasks of a project share an id
TaskLists ==
  {l \in SeqsUpTo(FullTasks, MaxTasks) :
     \A i, j \in 1..Len(l) : i # j => l[i].id # l[j].id}

TaskScans == {[EmptyPayload EXCEPT !["tasks"] = l] : l \in TaskLists}

TaskParams ==
  [project : {"", "alpha"}, status : {"", "todo"},
   owner : {"", "Alice", "alice", "Ali"}, priority : {"", "P1"},
   id : {"", "001", "T-001", "T"}]

OutputParams == [project : {"", "alpha"}, task : {"", "001", "T-001", "T"}]

\* the store holds what an earlier sync left in it
InitFilter ==
  /\ client = Null
  /\ db = Null
  /\ projectsCollection = Null
  /\ tasksCollection = Null
  /\ outputsCollection = Null
  /\ clients = [c \in 1..MaxClients |-> "free"]
  /\ variant \in {"store", "cache"}
  /\ \E l \in TaskLists :
       \E os \in {{}, {[id |-> "o1", project |-> "alpha", task |-> "T-001"]}} :
         /\ store = IF variant = "cache" THEN EmptyStore
                    ELSE [EmptyStore EXCEPT !["tasks"] = Range(l),
                                            !["outputs"] = os]
         /\ written =
              [k \in Kinds |->
                 [key \in KeysOf(k) |->
                    IF \E d \in store[k] : KeyOf(k, d) = key
                    THEN <<CHOOSE d \in store[k] : KeyOf(k, d) = key>>
                    ELSE <<>>]]
  /\ req = [r \in Reqs |-> IdleReq]
  /\ cache = <<>>
  /\ now = 0
  /\ published = <<>>
  /\ lastSet = <<>>
  /\ kv = <<>>
  /\ cronSecret = ""
  /\ isProd = FALSE

\* the two revisions of GET /api/tasks and GET /api/outputs of the store
NextFilter ==
  \/ \E params \in TaskParams : TasksGET(1, params)
  \/ \E params \in OutputParams : OutputsGET(1, params)
  \/ ConnWaitDone(1)
  \/ IdxWaitDone(1)
  \/ ConnRet(1)
  \/ OpFail(1)
  \/ GetTasksDone(1)
  \/ req[1].kind = "outputsGet" /\ GetAllDone(1)
  \/ \E params \in TaskParams : TasksGETCache(1, TaskScans, params)
  \/ \E params \in OutputParams :
       OutputsGETCache(1, CacheScans, Given(params))
  \/ Return(1)

SpecFilter == InitFilter /\ [][NextFilter]_vars

\* the tasks GET /api/tasks reads: the collection, or the cached snapshot
TaskSource ==
  IF variant = "store" THEN store["tasks"]
  ELSE Range(cache[1].payload["tasks"])

\* C18: a GET /api/tasks with any of the filters project, status, owner and
\* priority (and no id) answers exactly the tasks whose fields equal every
\* filter given, each once, latest updated first; with no filter, every task.
C18_ExactFilter ==
  \A r \in Reqs :
    /\ req[r].kind = "tasksGet"
    /\ req[r].pc = "done"
    /\ req[r].status = 200
    /\ req[r].doc[1].id = ""
    => LET p == req[r].doc[1]
           want == {t \in TaskSource :
                      \A f \in {"project", "status", "owner", "priority"} :
                        p[f] # "" => t[f] = p[f]}
           got == req[r].list
       IN  /\ Range(got) = want
           /\ Len(got) = Cardinality(want)
           /\ \A i, j \in 1..Len(got) :
                i < j => got[i].updated >= got[j].updated

\* ------------------------------ single-record writes and deletes, in turn
NextDelete ==
  \/ Calls(StoreOneFns \cup DeleteFns)
  \/ ConnWaitDone(1)
  \/ IdxWaitDone(1)
  \/ ConnRet(1)
  \/ OpFail(1)
  \/ StoreOneDone(1)
  \/ DeleteDone(1)
  \/ Return(1)

SpecDelete == InitCalls /\ [][NextDelete]_vars

\* the delete names the whole key of its kind: deleteProject(slug),
\* deleteTask(id, project), deleteOutput(id)
ByKey(rq) ==
  DOMAIN rq.query = CASE rq.kind = "deleteProject" -> {"slug"}
                      [] rq.kind = "deleteTask" -> {"project", "id"}
                      [] rq.kind = "deleteOutput" -> {"id"}

\* C19: a delete by key that returns answers true exactly when the store held
\* a record with that key, and then that record and no other is gone; it
\* answers false and leaves the store as it was when there was none, which is
\* the state every returned delete of the key leaves, so a second delete
\* answers false and changes nothing.
C19_DeleteReportsExistence ==
  [][\A r \in Reqs :
       /\ req[r].kind \in DeleteFns
       /\ ByKey(req[r])
       /\ req[r].pc = "opWait"
       /\ req'[r].pc = "done"
       /\ req'[r].status = 200
       => LET k == KindOf(req[r].kind)
              hit == Find(store[k], req[r].query)
          IN  /\ req'[r].deleted = (hit # {})
              /\ store' = [store EXCEPT ![k] = @ \ hit]
              /\ Find(store'[k], req[r].query) = {}]_vars

\* deleteTask(id, project) returned true and the task of the same id in
\* another project is still stored
C19_Witness ==
  \E r \in Reqs :
    /\ req[r].kind = "deleteTask"
    /\ ByKey(req[r])
    /\ req[r].pc = "done"
    /\ req[r].status = 200
    /\ req[r].deleted
    /\ \E t \in store["tasks"] : t.id = req[r].query.id

\* an id with the prefix "T-": itself if it has it, else with it prepended
Prefixed(id) == IF StartsWith(id, "T-") THEN id ELSE "T-" \o id

\* the parameter of an endpoint that holds a task id
IdParam(kind) == IF kind = "tasksGet" THEN "id" ELSE "task"

\* the filter a request with the parameters params asks for, its task id
\* carrying the prefix
Asked(kind, params) ==
  Given([params EXCEPT ![IdParam(kind)] = IF @ # "" THEN Prefixed(@) ELSE @])

\* GET /api/tasks and GET /api/outputs of the store-backed revision: the id
\* (the task) of the filter is the parameter with the prefix, or is not in
\* the filter when the parameter is empty; normalizing it again changes
\* nothing; the answer holds the records that match that filter
StoreEndpointsNormalize ==
  \A r \in Reqs :
    /\ variant = "store"
    /\ req[r].kind \in {"tasksGet", "outputsGet"}
    /\ req[r].pc # "idle"
    => LET f == IdParam(req[r].kind)
           raw == req[r].doc[1][f]
           q == req[r].query
       IN  /\ NormalizeTaskId("") = ""
           /\ raw = "" => f \notin DOMAIN q
           /\ raw # "" => /\ q[f] = Prefixed(raw)
                          /\ NormalizeTaskId(q[f]) = q[f]
           /\ req[r].pc = "done" /\ req[r].status = 200
                => req[r].found =
                     Find(store[IF f = "id" THEN "tasks" ELSE "outputs"],
                          Asked(req[r].kind, req[r].doc[1]))

MaxLines == 3

CharAt(s, i) == SubSeq(s, i, i)

Chars(s) == {CharAt(s, i) : i \in 1..Len(s)}

\* \s
IsSpace(c) == c \in {" ", "\t", "\r"}

\* a line terminator, which `.` does not match
IsTerminator(c) == c = "\r"

\* [a-z0-9]
IsAlnum(c) == c \in Chars(LowerCase) \cup Chars("0123456789")

\* \d
IsDigit(c) == c \in Chars("0123456789")

UpperChar(c) ==
  IF \E i \in 1..26 : CharAt(LowerCase, i) = c
  THEN LET i == CHOOSE j \in 1..26 : CharAt(LowerCase, j) = c
       IN  CharAt(UpperCase, i)
  ELSE c

\* c is of the class \s, \d or [^a-z0-9]
IsOf(c, class) ==
  CASE class = "\\s" -> IsSpace(c)
    [] class = "\\d" -> IsDigit(c)
    [] class = "[^a-z0-9]" -> ~IsAlnum(c)

\* the number of leading characters of s that are of the class
Lead(s, class) ==
  CHOOSE n \in 0..Len(s) :
    /\ \A i \in 1..n : IsOf(CharAt(s, i), class)
    /\ n = Len(s) \/ ~IsOf(CharAt(s, n + 1), class)

Drop(s, n) == SubSeq(s, n + 1, Len(s))

Reverse(s) ==
  LET RECURSIVE Rev(_)
      Rev(t) == IF t = "" THEN "" ELSE Rev(Drop(t, 1)) \o CharAt(t, 1)
  IN  Rev(s)

TrimStart(s) == Drop(s, Lead(s, "\\s"))

\* String.prototype.trim
Trim(s) == Reverse(TrimStart(Reverse(TrimStart(s))))

\* the index of the first sub in s, or 0
IndexOf(s, sub) ==
  LET hits == {i \in 1..(Len(s) - Len(sub) + 1) :
                 SubSeq(s, i, i + Len(sub) - 1) = sub}
  IN  IF hits = {} THEN 0 ELSE CHOOSE i \in hits : \A j \in hits : i <= j

\* key.toLowerCase().replace(/[^a-z0-9]+(.)/g, (_, char) => char.toUpperCase())
RECURSIVE CamelReplace(_)
CamelReplace(s) ==
  LET n == Lead(s, "[^a-z0-9]")
  IN  IF s = "" THEN ""
      ELSE IF n = 0 THEN CharAt(s, 1) \o CamelReplace(Drop(s, 1))
      ELSE IF n < Len(s)
           THEN UpperChar(CharAt(s, n + 1)) \o CamelReplace(Drop(s, n + 1))
      ELSE IF n >= 2 THEN UpperChar(CharAt(s, n))
      ELSE s

CamelKey(key) == CamelReplace(ToLowerCase(key))

\* line.match(/^\s*-\s*([^:]+):\s*(.*)$/): <<key, value>> trimmed, or <<>>
MetaLineMatch(line) ==
  LET t == TrimStart(line)
      r == Drop(t, 1)
      p == IndexOf(r, ":")
      v == TrimStart(Drop(r, p))
  IN  IF t = "" \/ CharAt(t, 1) # "-" THEN <<>>
      ELSE IF p < 2 THEN <<>>
      ELSE IF \E c \in Chars(v) : IsTerminator(c) THEN <<>>
      ELSE <<Trim(SubSeq(r, 1, p - 1)), Trim(v)>>

\* a line on which /## Meta\s*\n/ can match: "## Meta", then white space
IsMetaHeading(line) ==
  \E i \in 1..(Len(line) - 6) :
    /\ SubSeq(line, i, i + 6) = "## Meta"
    /\ \A c \in Chars(Drop(line, i + 6)) : IsSpace(c)

IsBlank(line) == \A c \in Chars(line) : IsSpace(c)

\* content.match(/## Meta\s*\n([\s\S]*?)(?=\n##|$)/)[1].split('\n'): the
\* lines after the heading and the blank lines that follow it, up to the
\* next line that begins with "##"; <<>> also when nothing matches
MetaLines(content) ==
  LET heads == {i \in 1..(Len(content) - 1) : IsMetaHeading(content[i])}
      h == CHOOSE i \in heads : \A j \in heads : i <= j
      blanks == {i \in (h + 1)..(Len(content) - 1) :
                   \A j \in (h + 1)..i : IsBlank(content[j])}
      from == h + 1 + Cardinality(blanks)
      ends == {i \in (from + 1)..Len(content) :
                 StartsWith(content[i], "##")}
      to == IF ends = {} THEN Len(content)
            ELSE (CHOOSE i \in ends : \A j \in ends : i <= j) - 1
  IN  IF heads = {} THEN <<>> ELSE SubSeq(content, from, to)

\* the value JavaScript calls undefined
Undefined == <<>>

\* (variant: a key that has a value keeps it)
MetaAssignFirst(meta, key, value) ==
  IF key \in DOMAIN meta /\ meta[key] # Undefined THEN meta
  ELSE [k \in DOMAIN meta \cup {key} |-> IF k = key THEN value ELSE meta[k]]

\* meta[camelKey] = ...
MetaAssign(meta, key, value) ==
  [k \in DOMAIN meta \cup {key} |-> IF k = key THEN value ELSE meta[k]]

\* parseMetaSection(content): the mapping, a key without a value is Undefined
ParseMetaSection(content) ==
  LET lines == MetaLines(content)
      RECURSIVE Loop(_, _)
      Loop(i, meta) ==
        IF i > Len(lines) THEN meta
        ELSE LET m == MetaLineMatch(lines[i])
             IN  IF m = <<>> THEN Loop(i + 1, meta)
                 ELSE Loop(i + 1,
                           MetaAssign(meta, CamelKey(m[1]),
                                      IF m[2] = "-" \/ m[2] = ""
                                      THEN Undefined ELSE <<m[2]>>))
  IN  Loop(1, <<>>)

\* meta.key || fallback
OrElse(meta, key, fallback) ==
  IF key \in DOMAIN meta /\ meta[key] # Undefined THEN meta[key][1]
  ELSE fallback

\* the pieces of a line between its line terminators: with the flag m, ^ and
\* $ match at each of them
RECURSIVE Segments(_)
Segments(line) ==
  LET p == IndexOf(line, "\r")
  IN  IF p = 0 THEN <<line>>
      ELSE <<SubSeq(line, 1, p - 1)>> \o Segments(Drop(line, p))

\* the pieces of all lines of a content, in order
RECURSIVE AllSegments(_)
AllSegments(content) ==
  IF content = <<>> THEN <<>>
  ELSE Segments(Head(content)) \o AllSegments(Tail(content))

\* the first of the matches a pattern of one line (flag m) finds in the
\* pieces of a content, or <<>>
FirstMatch(matches) ==
  LET hits == {i \in 1..Len(matches) : matches[i] # <<>>}
  IN  IF hits = {} THEN <<>>
      ELSE matches[CHOOSE i \in hits : \A j \in hits : i <= j]

\* /^# T-(\d+): (.*)$/ on one line: <<id, title>>, or <<>>
TaskHeadingMatch(seg) ==
  LET d == Lead(Drop(seg, 4), "\\d")
      rest == Drop(seg, 4 + d)
  IN  IF StartsWith(seg, "# T-") /\ d >= 1 /\ StartsWith(rest, ": ")
      THEN <<SubSeq(seg, 5, 4 + d), Drop(rest, 2)>>
      ELSE <<>>

\* new Date().toISOString()
NowISO == ToString(now)

\* parseTask(taskPath) of a file that exists: <<task>>, or <<>> for null.
\* The pattern of criteriaMatch has ^ after the heading and no flag m, so it
\* matches nothing and acceptanceCriteria stays [].
ParseTask(file) ==
  LET segs == AllSegments(file.content)
      match == FirstMatch([i \in 1..Len(segs) |-> TaskHeadingMatch(segs[i])])
      meta == ParseMetaSection(file.content)
  IN  IF match = <<>> THEN <<>>
      ELSE <<[id |-> match[1],
              title |-> match[2],
              project |-> file.project,
              owner |-> OrElse(meta, "owner", "Unassigned"),
              status |-> OrElse(meta, "status", "todo"),
              priority |-> OrElse(meta, "priority", "P2"),
              created |-> OrElse(meta, "created", NowISO),
              updated |-> OrElse(meta, "updated", NowISO),
              acceptanceCriteria |-> <<>>]>>

\* parseProject(projectPath) of a directory with an overview file
ParseProject(file) ==
  LET meta == ParseMetaSection(file.content)
  IN  <<[slug |-> file.project,
         status |-> OrElse(meta, "status", "active"),
         priority |-> OrElse(meta, "priority", "P2"),
         targetDate |-> IF "targetDate" \in DOMAIN meta
                        THEN meta["targetDate"] ELSE Undefined,
         lastUpdated |-> OrElse(meta, "lastUpdated", NowISO)]>>

\* /^# (.*): (.*)$/ on one line: <<id, title>>, the id as long as can be
OutputHeadingMatch(seg) ==
  LET cuts == {i \in 3..(Len(seg) - 1) : SubSeq(seg, i, i + 1) = ": "}
      c == CHOOSE i \in cuts : \A j \in cuts : j <= i
  IN  IF StartsWith(seg, "# ") /\ cuts # {}
      THEN <<SubSeq(seg, 3, c - 1), Drop(seg, c + 1)>>
      ELSE <<>>

\* /^- (label|label):\s*(.*)$/m in a content: <<value>> of the first line
\* that begins with one of the labels, or <<>>.  \s* runs over line ends, so
\* with only white space after the label the value is taken from the next
\* line that is not blank.
LabelMatch(content, labels) ==
  LET segs == AllSegments(content)
      hits == {i \in 1..Len(segs) : \E l \in labels : StartsWith(segs[i], l)}
      h == CHOOSE i \in hits : \A j \in hits : i <= j
      label == CHOOSE l \in labels : StartsWith(segs[h], l)
      rest == TrimStart(Drop(segs[h], Len(label)))
      later == {i \in (h + 1)..Len(segs) : ~IsBlank(segs[i])}
  IN  IF hits = {} THEN <<>>
      ELSE IF rest # "" \/ later = {} THEN <<rest>>
      ELSE <<TrimStart(segs[CHOOSE i \in later : \A j \in later : i <= j])>>

\* parseOutput(outputPath) of a file that exists
ParseOutput(file) ==
  LET segs == AllSegments(file.content)
      match == FirstMatch([i \in 1..Len(segs) |-> OutputHeadingMatch(segs[i])])
      task == LabelMatch(file.content, {"- Task ID:"})
      modified == LabelMatch(file.content,
                             {"- Last Modified:", "- last Modified:"})
  IN  IF match = <<>> THEN <<>>
      ELSE <<[id |-> match[1],
              title |-> match[2],
              project |-> file.project,
              task |-> task,
              lastModified |-> IF modified = <<>> THEN NowISO
                               ELSE modified[1]]>>

\* the contents of up to MaxLines lines, no line twice
Contents(lines) ==
  {c \in SeqsUpTo(lines, MaxLines) :
     \A i, j \in 1..Len(c) : i # j => c[i] # c[j]}

MetaContents ==
  Contents({"## Meta", "## Goal", "- Target Date: 2025-01-01",
            "- Target Date: -", "- target-date:", "- Owner: Bob",
            "- Target Date: 2025-01-01\r"})

TaskFiles ==
  {[project |-> "alpha", content |-> c] :
     c \in Contents({"# T-003: Fix login bug", "# Notes", "## Meta",
                     "- Owner: Bob", "- Updated: 2025-01-02"})}

ProjectFiles ==
  {[project |-> "alpha", content |-> c] :
     c \in Contents({"# Project: Alpha", "## Meta",
                     "- Last Updated: 2025-01-02", "- Status: done"})}

OutputFiles ==
  {[project |-> "alpha", content |-> c] :
     c \in Contents({"# o1: Report", "- Task ID: T-003", "- Task ID:",
                     "- Last Modified: 2025-01-03"})}

ParseFns == {"parseMetaSection", "parseTask", "parseProject", "parseOutput"}

ParseInputs(fn) ==
  CASE fn = "parseMetaSection" -> MetaContents
    [] fn = "parseTask" -> TaskFiles
    [] fn = "parseProject" -> ProjectFiles
    [] fn = "parseOutput" -> OutputFiles

\* what the function returns for the input: <<record>>, <<>> for null, or
\* <<mapping>>
ParseResult(fn, input) ==
  CASE fn = "parseMetaSection" -> <<ParseMetaSection(input)>>
    [] fn = "parseTask" -> ParseTask(input)
    [] fn = "parseProject" -> ParseProject(input)
    [] fn = "parseOutput" -> ParseOutput(input)

\* a parser function called on a file; the second caller reads the file the
\* first one read, unchanged, at its own time
ParseCall(r, fn, input) ==
  /\ Free(r)
  /\ IF r = 1 THEN \A o \in Reqs : Free(o)
     ELSE /\ req[1].kind = fn
          /\ req[1].pc = "done"
          /\ req[1].doc = <<input>>
  /\ req' = [req EXCEPT ![r] =
               Respond([NewReq(fn, <<>>) EXCEPT
                          !.doc = <<input>>,
                          !.list = ParseResult(fn, input)], 200)]
  /\ UNCHANGED <<storevars, cache, now, variant, published, lastSet, kv,
                 cronSecret, isProd>>

NextParse ==
  \/ \E r \in 1..2 : \E fn \in ParseFns : \E input \in ParseInputs(fn) :
       ParseCall(r, fn, input)
  \/ Tick
  \/ \E r \in 1..2 : Return(r)

SpecParse == InitCache /\ [][NextParse]_vars

\* line i of the content is in its Meta section: after the heading "## Meta"
\* with no other heading of that level in between
InMeta(content, i) ==
  \E h \in 1..(i - 1) :
    /\ content[h] = "## Meta"
    /\ \A j \in (h + 1)..i : ~StartsWith(content[j], "##")

\* the lines of the parser specification whose key converts to targetDate
TargetLines == {"- Target Date: 2025-01-01", "- Target Date: -", "- target-date:"}

\* a call of fn has returned to caller r
Parsed(r, fn) == req[r].kind = fn /\ req[r].pc = "done"

\* C21 as stated: a content whose Meta section has the line
\* "- Target Date: 2025-01-01" gives targetDate the value "2025-01-01"; when
\* every line of the section for that key has the value "-" or none, the
\* key has no value; without a Meta section the mapping is empty.
C21_MetaExtraction ==
  \A r \in Reqs :
    Parsed(r, "parseMetaSection")
      => LET content == req[r].doc[1]
             meta == req[r].list[1]
             at == {i \in 1..Len(content) :
                      InMeta(content, i) /\ content[i] \in TargetLines}
         IN  /\ (\E i \in 1..Len(content) :
                   /\ InMeta(content, i)
                   /\ content[i] \in {"- Target Date: 2025-01-01",
                                      "- Target Date: 2025-01-01\r"})
                  => /\ "targetDate" \in DOMAIN meta
                     /\ meta["targetDate"] = <<"2025-01-01">>
             /\ at # {} /\ (\A i \in at : content[i] # "- Target Date: 2025-01-01")
                  => /\ "targetDate" \in DOMAIN meta
                     /\ meta["targetDate"] = Undefined
             /\ (\A i \in 1..Len(content) : content[i] # "## Meta")
                  => meta = <<>>

\* C21, amended: the last line of the Meta section whose key converts to
\* targetDate decides: if it is "- Target Date: 2025-01-01", with no carriage
\* return at its end, targetDate has the value "2025-01-01"; if its value is
\* "-" or empty, targetDate has no value; without a Meta section the mapping
\* is empty.
C21_LastLineDecides ==
  \A r \in Reqs :
    Parsed(r, "parseMetaSection")
      => LET content == req[r].doc[1]
             meta == req[r].list[1]
             at == {i \in 1..Len(content) :
                      InMeta(content, i) /\ content[i] \in TargetLines}
             last == CHOOSE i \in at : \A j \in at : j <= i
         IN  /\ at # {}
                  => /\ "targetDate" \in DOMAIN meta
                     /\ meta["targetDate"] =
                          IF content[last] = "- Target Date: 2025-01-01"
                          THEN <<"2025-01-01">> ELSE Undefined
             /\ (\A i \in 1..Len(content) : content[i] # "## Meta")
                  => meta = <<>>

\* a Meta section with the line "- Target Date: 2025-01-01" after a line
\* that leaves targetDate without a value has been parsed
C21_Witness ==
  \E r \in Reqs :
    /\ Parsed(r, "parseMetaSection")
    /\ req[r].doc[1] = <<"## Meta", "- Target Date: -",
                         "- Target Date: 2025-01-01">>
    /\ req[r].list[1]["targetDate"] = <<"2025-01-01">>

\* C22: a task file with the heading "# T-003: Fix login bug" and no Meta
\* section is parsed to a task with id "T-003", title "Fix login bug", owner
\* "Unassigned", status "todo", priority "P2" and no acceptance criteria.
C22_TaskDefaults ==
  \A r \in Reqs :
    /\ Parsed(r, "parseTask")
    /\ \E i \in 1..Len(req[r].doc[1].content) :
         req[r].doc[1].content[i] = "# T-003: Fix login bug"
    /\ \A i \in 1..Len(req[r].doc[1].content) :
         req[r].doc[1].content[i] # "## Meta"
    => /\ req[r].list # <<>>
       /\ LET task == req[r].list[1]
          IN  /\ task.id = "T-003"
              /\ task.title = "Fix login bug"
              /\ task.owner = "Unassigned"
              /\ task.status = "todo"
              /\ task.priority = "P2"
              /\ task.acceptanceCriteria = <<>>

\* C24: the same unchanged project, task or output file parsed twice, at
\* whatever times, gives two records equal field for field (no field of a
\* parsed record is taken from the file's modification time).
C24_ParseIdempotent ==
  \A fn \in {"parseProject", "parseTask", "parseOutput"} :
    /\ Parsed(1, fn)
    /\ Parsed(2, fn)
    /\ req[1].doc = req[2].doc
    => req[1].list = req[2].list

\* ------------------------------------------------ the scan, parseAllData
\* the most project directories and the most files of a directory
MaxDirs == 2
MaxTaskFiles == 2

EndsWith(s, suffix) ==
  Len(s) >= Len(suffix)
  /\ SubSeq(s, Len(s) - Len(suffix) + 1, Len(s)) = suffix

\* the concatenation of the sequences of a sequence
RECURSIVE Flatten(_)
Flatten(ss) == IF ss = <<>> THEN <<>> ELSE Head(ss) \o Flatten(Tail(ss))

\* (variant: the loop over the task files ends at the first file that
\* parseTask returns null for)
ScanTasksUntilNull(dir) ==
  LET taskFiles == SelectSeq(dir.tasks,
                             LAMBDA f : StartsWith(f.name, "T-")
                                        /\ EndsWith(f.name, ".md"))
      parsed == [i \in 1..Len(taskFiles) |->
                   ParseTask([project |-> dir.project,
                              content |-> taskFiles[i].content])]
      nulls == {i \in 1..Len(parsed) : parsed[i] = <<>>}
      stop == IF nulls = {} THEN Len(parsed)
              ELSE (CHOOSE i \in nulls : \A j \in nulls : i <= j) - 1
  IN  Flatten(SubSeq(parsed, 1, stop))

\* the loop over the task files of one project directory: the files named
\* T-*.md are parsed in the order of the directory, a null is not pushed
ScanTasks(dir) ==
  LET taskFiles == SelectSeq(dir.tasks,
                             LAMBDA f : StartsWith(f.name, "T-")
                                        /\ EndsWith(f.name, ".md"))
  IN  Flatten([i \in 1..Len(taskFiles) |->
                 ParseTask([project |-> dir.project,
                            content |-> taskFiles[i].content])])

\* the loop over the output files of one project directory; overview and
\* outputs hold the files that exist
ScanOutputs(dir) ==
  LET outputFiles == SelectSeq(dir.outputs, LAMBDA f : EndsWith(f.name, ".md"))
  IN  Flatten([i \in 1..Len(outputFiles) |->
                 ParseOutput([project |-> dir.project,
                              content |-> outputFiles[i].content])])

\* parseAllData() outside production: the records of the project
\* directories, in the order scanProjects() lists them
ScanDirs(dirs) ==
  [projects |->
     Flatten([i \in 1..Len(dirs) |->
                IF dirs[i].overview = <<>> THEN <<>>
                ELSE ParseProject([project |-> dirs[i].project,
                                   content |-> dirs[i].overview[1]])]),
   tasks |-> Flatten([i \in 1..Len(dirs) |-> ScanTasks(dirs[i])]),
   outputs |-> Flatten([i \in 1..Len(dirs) |-> ScanOutputs(dirs[i])])]

\* a call of parseAllData() on the planning directory dirs
ParseAllDataCall(r, dirs) ==
  /\ Free(r)
  /\ \E scan \in ParseAllData({ScanDirs(dirs)}) :
       req' = [req EXCEPT ![r] =
                 Respond([NewReq("parseAllData", <<>>) EXCEPT
                            !.doc = <<dirs>>, !.parsed = TRUE,
                            !.list = <<scan>>], 200)]
  /\ UNCHANGED <<storevars, cache, now, variant, published, lastSet, kv,
                 cronSecret, isProd>>

\* the files of a tasks directory: no two files of a directory share a name
DirFiles ==
  {[name |-> "T-003.md", content |-> <<"# T-003: Fix login bug">>],
   [name |-> "T-004.md", content |-> <<"## Meta", "- Owner: Bob">>],
   [name |-> "T-005.md", content |-> <<"# T-005: Ship", "## Meta", "- Owner: Bob">>],
   [name |-> "notes.md", content |-> <<"# T-009: Not a task file">>]}

DirLists ==
  {l \in SeqsUpTo(DirFiles, MaxTaskFiles) :
     \A i, j \in 1..Len(l) : i # j => l[i].name # l[j].name}

ProjectDirs ==
  {[project |-> p, overview |-> o, tasks |-> l, outputs |-> <<>>] :
     p \in Slugs, o \in {<<>>, <<<<"# Project: X">>>>}, l \in DirLists}
  \cup {[project |-> p, overview |-> <<>>, tasks |-> <<>>,
         outputs |-> <<[name |-> "report.md",
                        content |-> <<"# o1: Report", "- Task ID: T-003">>]>>] :
          p \in Slugs}

\* the orders in which readdirSync lists up to MaxDirs project directories
SlugLists ==
  {l \in SeqsUpTo(Slugs, MaxDirs) :
     \A i, j \in 1..Len(l) : i # j => l[i] # l[j]}

PlanningDirs ==
  UNION {{d \in [1..Len(l) -> ProjectDirs] :
            \A i \in 1..Len(l) : d[i].project = l[i]} : l \in SlugLists}

InitScan ==
  /\ InitStore
  /\ variant = "store"
  /\ cronSecret = ""
  /\ isProd \in BOOLEAN

NextScan ==
  \/ Free(1) /\ \E dirs \in PlanningDirs : ParseAllDataCall(1, dirs)
  \/ Return(1)

SpecScan == InitScan /\ [][NextScan]_vars

\* the task files of the planning directory dirs with their project, in the
\* order of the scan
TaskFilesOf(dirs) ==
  Flatten([i \in 1..Len(dirs) |->
             [j \in 1..Len(dirs[i].tasks) |->
                [project |-> dirs[i].project, name |-> dirs[i].tasks[j].name]]])

\* the names of the task files of the specification whose heading has the
\* form "# T-<digits>: <title>"
WellFormed == {"T-003.md", "T-005.md"}

\* C23: the tasks of a scan are the task files (T-*.md) with a heading of the
\* required form, each once, in the order of the directories and of the files
\* in them; a file without such a heading is left out, the files and the
\* projects after it are parsed.
C23_ScanSkipsMalformed ==
  \A r \in Reqs :
    Parsed(r, "parseAllData") /\ ~isProd
      => LET want == SelectSeq(TaskFilesOf(req[r].doc[1]),
                               LAMBDA f : f.name \in WellFormed)
             got == req[r].list[1]["tasks"]
         IN  /\ Len(got) = Len(want)
             /\ \A i \in 1..Len(got) :
                  /\ got[i].project = want[i].project
                  /\ "T-" \o got[i].id \o ".md" = want[i].name

\* a scan met a file without the heading before a well-formed file of the
\* same project, and a later project with a well-formed file
C23_Witness ==
  \E r \in Reqs :
    /\ Parsed(r, "parseAllData")
    /\ ~isProd
    /\ Len(req[r].doc[1]) = 2
    /\ req[r].doc[1][1].tasks # <<>>
    /\ req[r].doc[1][1].tasks[1].name = "T-004.md"
    /\ Len(req[r].list[1]["tasks"]) = 2
    /\ req[r].list[1]["tasks"][1].project # req[r].list[1]["tasks"][2].project

\* --------------------- a scan synced to the store, then GET /api/tasks
\* the scans of a planning directory with the project alpha, or alpha and beta
SyncedScans ==
  {ScanDirs(dirs) :
     dirs \in {d \in PlanningDirs :
                 /\ d # <<>>
                 /\ d[1].project = "alpha"
                 /\ \A i \in 1..Len(d) :
                      /\ d[i].overview # <<>>
                      /\ Len(d[i].tasks) = 1
                      /\ d[i].tasks[1].name \in {"T-003.md", "T-004.md"}}}

IdParams ==
  [project : {"alpha", "beta"}, status : {""}, owner : {"", "Bob"},
   priority : {""}, id : {"", "003", "T-003"}]

NextSynced ==
  \/ RefreshPOST(1, SyncedScans)
  \/ \E params \in IdParams : TasksGET(1, params)
  \/ ConnWaitDone(1)
  \/ IdxWaitDone(1)
  \/ ConnRet(1)
  \/ CloseDone(1)
  \/ OpFail(1)
  \/ GetAllStatsDone(1)
  \/ GetTasksDone(1)
  \/ \E k \in Kinds : BulkStep(1, k)
  \/ \E k \in Kinds : BulkFail(1, k)
  \/ BatchesResolve(1)
  \/ BatchesReject(1)
  \/ Return(1)

SpecSynced == InitCalls /\ [][NextSynced]_vars

\* C25: once the task file "# T-003: Fix login bug" of project alpha is
\* scanned and synced, GET /api/tasks with the project and the id "003", and
\* with the id "T-003", answers that task.
C25_StoredIdMatchesFilter ==
  \A r \in Reqs :
    /\ req[r].kind = "tasksGet"
    /\ req[r].pc = "done"
    /\ req[r].status = 200
    /\ req[r].doc[1].id \in {"003", "T-003"}
    /\ req[r].doc[1].project = "alpha"
    /\ req[r].doc[1].owner = ""
    => \A t \in store["tasks"] :
         t.project = "alpha" /\ t.title = "Fix login bug" => t \in req[r].found

\* -------------------------------------------------- the connection state
Handles == {projectsCollection, tasksCollection, outputsCollection}

\* C26: at every point where a caller can run, the three collection handles
\* are all null or all non-null, and they are non-null only while client and
\* db are non-null and refer to the same client, which is still open.
C26_ConnectionState ==
  /\ Handles = {Null} \/ Null \notin Handles
  /\ Null \notin Handles
       => /\ client # Null
          /\ db = client
          /\ Handles = {client}
          /\ clients[client] = "open"

\* C27: once syncAll has returned to its caller, resolved or rejected, none of
\* its three batch writes is still in flight, so no write of that syncAll is
\* applied to the store after the caller has its result.
C27_SyncAllSettled ==
  \A r \in Reqs :
    req[r].pc = "done"
      /\ req[r].kind \in {"syncAll", "refresh", "cron", "webhookPost"}
      => \A k \in Kinds : req[r].batch[k].st # "inflight"

\* C28: a refresh POST, cron GET, webhook POST or webhook GET of the
\* store-backed revision that returns while no other request is running leaves
\* the shared connection closed, whatever its answer.
C28_HandlersLeaveClosed ==
  \A r \in Reqs :
    /\ variant = "store"
    /\ req[r].kind \in HandlerKinds
    /\ req[r].pc = "done"
    /\ \A o \in Reqs \ {r} : req[o].pc = "idle"
    => client = Null /\ Live = {}

\* ------------------------------------------------ the project detail page
\* handleViewOutputs(task) of the page of project slug: task is one of the
\* tasks the page listed with /api/tasks?project=slug, and the page fetches
\* `/api/outputs?task=${task.id}`; doc keeps the request's parameters and the
\* page's slug
HandleViewOutputs(r, slug, task) ==
  LET params == [project |-> "", task |-> task.id]
  IN  /\ variant = "store"
      /\ Free(r)
      /\ task \in Find(store["tasks"], [project |-> slug])
      /\ Apply(r, EnterFn([NewReq("outputsGet", <<"getOutputs">>) EXCEPT
                             !.doc = <<params, slug>>,
                             !.query = OutputsFilterOf(params)],
                          "getOutputs"))
      /\ UNCHANGED <<colvars, store, written, envvars>>

\* the store holds the tasks and outputs an earlier sync left in it
InitPage ==
  /\ client = Null
  /\ db = Null
  /\ projectsCollection = Null
  /\ tasksCollection = Null
  /\ outputsCollection = Null
  /\ clients = [c \in 1..MaxClients |-> "free"]
  /\ variant = "store"
  /\ \E ts \in SUBSET {t \in Task : t.status = "todo"} :
       \E os \in {s \in SUBSET Output :
                    \A a, b \in s : a.id = b.id => a = b} :
         /\ store = [EmptyStore EXCEPT !["tasks"] = ts, !["outputs"] = os]
         /\ written =
              [k \in Kinds |->
                 [key \in KeysOf(k) |->
                    IF \E d \in store[k] : KeyOf(k, d) = key
                    THEN <<CHOOSE d \in store[k] : KeyOf(k, d) = key>>
                    ELSE <<>>]]
  /\ req = [r \in Reqs |-> IdleReq]
  /\ cache = <<>>
  /\ now = 0
  /\ published = <<>>
  /\ lastSet = <<>>
  /\ kv = <<>>
  /\ cronSecret = ""
  /\ isProd = FALSE

NextPage ==
  \/ \E slug \in Slugs : \E task \in Task : HandleViewOutputs(1, slug, task)
  \/ ConnWaitDone(1)
  \/ IdxWaitDone(1)
  \/ ConnRet(1)
  \/ OpFail(1)
  \/ GetAllDone(1)
  \/ Return(1)

SpecPage == InitPage /\ [][NextPage]_vars

\* C29: when the page of a project asks for the outputs of one of its tasks,
\* every output in the answer belongs to that project.
C29_OutputsOfOwnProject ==
  \A r \in Reqs :
    req[r].kind = "outputsGet" /\ req[r].pc = "done" /\ req[r].status = 200
      /\ Len(req[r].doc) = 2
      => \A o \in req[r].found : o.project = req[r].doc[2]

\* --------------------------------------------------- production deployment
SyncKinds == {"refresh", "cron"}

\* C30: in production mode, while the only request served is a manual refresh
\* or a cron sync, no write is issued (each of the three batches of its syncAll
\* is empty) and every collection of the store stays as it was.
C30_ProdSyncWritesNothing ==
  [][/\ isProd
     /\ variant = "store"
     /\ \A r \in Reqs : req[r].kind \in SyncKinds \cup {"idle"}
     /\ \A r \in Reqs : req'[r].kind \in SyncKinds \cup {"idle"}
     => /\ UNCHANGED <<store, written>>
        /\ \A r \in Reqs : \A k \in Kinds :
             req'[r].batch[k].st \in {"none", "ok"}]_vars

\* a manual refresh answered 200 in production while the store holds a project
\* an earlier webhook sync wrote
C30_Witness ==
  /\ isProd
  /\ variant = "store"
  /\ req[1].kind = "refresh"
  /\ req[1].pc = "done"
  /\ req[1].status = 200
  /\ req[1].parsed
  /\ \A k \in Kinds : req[1].batch[k].st = "ok"
  /\ store["projects"] # {}

====
